---------------------------- MODULE Spec2Model ----------------------------
(***************************************************************************)
(* A model of the Piper term-rewriting engine: the expression data model   *)
(* (expressions.py), the pattern matcher (expressions.py) and the kernel   *)
(* with its two rule kinds (evaluation.py), together with the shipped      *)
(* rule pack (initialize_rules.py).                                        *)
(*                                                                         *)
(* Values are tagged tuples; the first component is the Python class.      *)
(*   <<"Integer", v>>            Integer(v), v a TLA+ integer              *)
(*   <<"Real", f>>               Real(f), f a float <<"float", n, d>>      *)
(*   <<"Rational", n, d>>        Rational with fields numerator/denominator*)
(*   <<"Complex", r, i>>         Complex with fields real/imaginary        *)
(*   <<"Symbol", name, attrs>>   Symbol(name, attributes)                  *)
(*   <<"Function", head, args>>  Function; args is the list held by its    *)
(*                               argument_sequence                         *)
(*   <<"Blank", head>>           Blank(head), head possibly None           *)
(*   <<"BoundPattern", name, b>> BoundPattern(name, base_pattern)          *)
(*   <<"Error", what>>           a raised Python exception                 *)
(* Python floats are modelled by the exact quotient n/d in lowest terms    *)
(* (<<"float", n, d>>), Python ints by <<"int", v>>.                       *)
(***************************************************************************)
EXTENDS Integers, Sequences, FiniteSets, TLC

VARIABLES rules, stack, ret, input, obs, call

vars == <<rules, stack, ret, input, obs, call>>

-----------------------------------------------------------------------------
(* Generic helpers on sequences.                                           *)

RemoveAt(s, i) == SubSeq(s, 1, i - 1) \o SubSeq(s, i + 1, Len(s))

None == <<"None">>

Error(what) == <<"Error", what>>

IsError(x) == x[1] = "Error"

\* The first raised exception among the values of a list, or None.
FirstError(s) ==
    IF \E i \in 1..Len(s) : IsError(s[i])
    THEN s[CHOOSE i \in 1..Len(s) : IsError(s[i]) /\ \A j \in 1..(i - 1) : ~IsError(s[j])]
    ELSE None

-----------------------------------------------------------------------------
(* Attributes and the default attribute table.                             *)

Flat == "Flat"
Orderless == "Orderless"
OneIdentity == "OneIdentity"
Numeric == "Numeric"
Constant == "Constant"
NumericFunction == "NumericFunction"
Hold == "Hold"
Protected == "Protected"

default_attributes(name) ==
    IF name \in {"Times", "Plus", "And", "Or"} THEN {Flat, Orderless, OneIdentity}
    ELSE IF name \in {"Pi", "E"} THEN {Constant}
    ELSE {}

-----------------------------------------------------------------------------
(* Constructors of atoms and patterns.                                     *)

Integer(v) == <<"Integer", v>>

\* Symbol(name, attributes): the explicit attributes are stored; the
\* defaults of the table are added by Attributes below.
SymbolA(name, attributes) == <<"Symbol", name, attributes>>

Symbol(name) == SymbolA(name, {})

Blank(head) == <<"Blank", head>>

BoundPattern(name, base_pattern) == <<"BoundPattern", name, base_pattern>>

IsInteger(e) == e[1] = "Integer"
IsReal(e) == e[1] = "Real"
IsRational(e) == e[1] = "Rational"
IsComplex(e) == e[1] = "Complex"
IsSymbol(e) == e[1] = "Symbol"
IsFunction(e) == e[1] = "Function"
IsBlank(e) == e[1] = "Blank"
IsBoundPattern(e) == e[1] = "BoundPattern"
IsNumber(e) == e[1] \in {"Integer", "Real", "Rational", "Complex"}

\* The head of an expression: for atoms the type symbol.
HeadOf(e) ==
    CASE IsFunction(e) -> e[2]
      [] IsSymbol(e) -> Symbol("Symbol")
      [] IsInteger(e) -> Symbol("Integer")
      [] IsReal(e) -> Symbol("Real")
      [] IsRational(e) -> Symbol("Rational")
      [] IsComplex(e) -> Symbol("Complex")

-----------------------------------------------------------------------------
(* str(): the textual form, as a list of character codes.  Sorting of      *)
(* Orderless arguments compares these lists as Python compares strings.    *)

Chars ==
    "ConstantQ" :> <<67, 111, 110, 115, 116, 97, 110, 116, 81>> @@
    "RealQ" :> <<82, 101, 97, 108, 81>> @@
    "E" :> <<69>> @@
    "Pi" :> <<80, 105>> @@
    "PositiveQ" :> <<80, 111, 115, 105, 116, 105, 118, 101, 81>> @@
    "NonNegativeQ" :> <<78, 111, 110, 78, 101, 103, 97, 116, 105, 118, 101, 81>> @@
    "Plus" :> <<80, 108, 117, 115>> @@
    "Times" :> <<84, 105, 109, 101, 115>> @@
    "Power" :> <<80, 111, 119, 101, 114>> @@
    "Log" :> <<76, 111, 103>> @@
    "Log10" :> <<76, 111, 103, 49, 48>> @@
    "Log2" :> <<76, 111, 103, 50>> @@
    "D" :> <<68>> @@
    "Cos" :> <<67, 111, 115>> @@
    "Sin" :> <<83, 105, 110>> @@
    "Derivative" :> <<68, 101, 114, 105, 118, 97, 116, 105, 118, 101>> @@
    "Exp" :> <<69, 120, 112>> @@
    "And" :> <<65, 110, 100>> @@
    "Not" :> <<78, 111, 116>> @@
    "Or" :> <<79, 114>> @@
    "Implies" :> <<73, 109, 112, 108, 105, 101, 115>> @@
    "Equivalent" :> <<69, 113, 117, 105, 118, 97, 108, 101, 110, 116>> @@
    "Sqrt" :> <<83, 113, 114, 116>> @@
    "True" :> <<84, 114, 117, 101>> @@
    "False" :> <<70, 97, 108, 115, 101>> @@
    "Symbol" :> <<83, 121, 109, 98, 111, 108>> @@
    "Integer" :> <<73, 110, 116, 101, 103, 101, 114>> @@
    "Real" :> <<82, 101, 97, 108>> @@
    "Rational" :> <<82, 97, 116, 105, 111, 110, 97, 108>> @@
    "Complex" :> <<67, 111, 109, 112, 108, 101, 120>> @@
    "Sequence" :> <<83, 101, 113, 117, 101, 110, 99, 101>> @@
    "Blank" :> <<66, 108, 97, 110, 107>> @@
    "BoundPattern" :> <<66, 111, 117, 110, 100, 80, 97, 116, 116, 101, 114, 110>> @@
    "a" :> <<97>> @@
    "b" :> <<98>> @@
    "c" :> <<99>> @@
    "d" :> <<100>> @@
    "x" :> <<120>> @@
    "y" :> <<121>> @@
    "z" :> <<122>> @@
    "f" :> <<102>> @@
    "g" :> <<103>> @@
    "h" :> <<104>> @@
    "p" :> <<112>> @@
    "q" :> <<113>> @@
    "Q" :> <<81>>

\* Decimal digits of a natural number.
RECURSIVE Digits(_)
Digits(n) == IF n < 10 THEN <<48 + n>> ELSE Digits(n \div 10) \o <<48 + (n % 10)>>

\* str(int)
StrInt(v) == IF v < 0 THEN <<45>> \o Digits(-v) ELSE Digits(v)

\* str(float), for the floats whose repr is exact and short: the integers
\* ("2.0") and the halves ("2.5").  Other floats are outside the domain of
\* the model's sort keys.
StrFloat(f) ==
    LET n == f[2]
        d == f[3]
        m == IF n < 0 THEN -n ELSE n
        sign == IF n < 0 THEN <<45>> ELSE <<>>
    IN CASE d = 1 -> sign \o Digits(m) \o <<46, 48>>
         [] d = 2 -> sign \o Digits(m \div 2) \o <<46, 53>>

RECURSIVE Str(_)
RECURSIVE JoinStr(_)
\* ", ".join(map(str, expressions))
JoinStr(s) ==
    IF s = <<>> THEN <<>>
    ELSE IF Len(s) = 1 THEN Str(s[1])
    ELSE Str(s[1]) \o <<44, 32>> \o JoinStr(Tail(s))

Str(e) ==
    CASE IsInteger(e) -> StrInt(e[2])
      [] IsReal(e) -> StrFloat(e[2])
      [] IsSymbol(e) -> Chars[e[2]]
      [] IsRational(e) -> Chars["Rational"] \o <<91>> \o Str(e[2]) \o <<44, 32>> \o Str(e[3]) \o <<93>>
      [] IsComplex(e) -> Chars["Complex"] \o <<91>> \o Str(e[2]) \o <<44, 32>> \o Str(e[3]) \o <<93>>
      [] IsFunction(e) -> Str(e[2]) \o <<91>> \o JoinStr(e[3]) \o <<93>>
      [] IsBlank(e) -> Chars["Blank"]
      [] IsBoundPattern(e) -> Chars["BoundPattern"] \o <<91>> \o Chars[e[2]] \o <<93>>

\* s < t for Python strings (lexicographic on code points).
RECURSIVE StrLess(_, _)
StrLess(s, t) ==
    IF t = <<>> THEN FALSE
    ELSE IF s = <<>> THEN TRUE
    ELSE IF s[1] # t[1] THEN s[1] < t[1]
    ELSE StrLess(Tail(s), Tail(t))

-----------------------------------------------------------------------------
(* Structural equality (__eq__): deep, on class and fields; the attributes *)
(* of a Symbol take no part in it.                                         *)

RECURSIVE Strip(_)
Strip(e) ==
    CASE IsSymbol(e) -> <<"Symbol", e[2], {}>>
      [] IsFunction(e) -> <<"Function", Strip(e[2]), [i \in 1..Len(e[3]) |-> Strip(e[3][i])]>>
      [] IsRational(e) -> <<"Rational", Strip(e[2]), Strip(e[3])>>
      [] IsComplex(e) -> <<"Complex", Strip(e[2]), Strip(e[3])>>
      [] IsBoundPattern(e) -> <<"BoundPattern", e[2], Strip(e[3])>>
      [] IsBlank(e) -> IF e[2] = None THEN e ELSE <<"Blank", Strip(e[2])>>
      [] OTHER -> e

Eq(a, b) == Strip(a) = Strip(b)

-----------------------------------------------------------------------------
(* Sequence.flatten, Sequence.sort and the Function constructor.           *)

\* A flatten that would splice nothing.
flattenVariant(expressions, head) == expressions

\* Sequence.flatten(head): one level of splicing.
RECURSIVE flatten(_, _)
flatten(expressions, head) ==
    IF expressions = <<>> THEN <<>>
    ELSE LET argument == Head(expressions)
         IN (IF IsFunction(argument) /\ Eq(argument[2], head)
             THEN argument[3]
             ELSE <<argument>>) \o flatten(Tail(expressions), head)

\* Insert x into the sorted list s behind every element whose key is not
\* greater (sorted() is stable).
RECURSIVE InsertSorted(_, _)
InsertSorted(s, x) ==
    IF s = <<>> THEN <<x>>
    ELSE IF StrLess(Str(x), Str(Head(s))) THEN <<x>> \o s
    ELSE <<Head(s)>> \o InsertSorted(Tail(s), x)

RECURSIVE SortFrom(_, _)
SortFrom(done, rest) ==
    IF rest = <<>> THEN done ELSE SortFrom(InsertSorted(done, Head(rest)), Tail(rest))

\* Sequence.sort(): sorted(self.expressions, key=str)
sort(expressions) == SortFrom(<<>>, expressions)

\* The attribute list a Function receives in Expression.__init__: the head
\* is always an instance of Pattern, so nothing is inherited from it and
\* only the default table (keyed by str(head)) contributes.  Only a Symbol
\* has a textual form that is a key of the table.
FunctionAttributes(head, attributes) ==
    (IF attributes # None THEN {Flat} ELSE {})
        \cup (IF IsSymbol(head) THEN default_attributes(head[2]) ELSE {})

FunctionInit(head, argument_sequence, attributes) ==
    LET attrs == FunctionAttributes(head, attributes)
        flattened == IF Flat \in attrs THEN flatten(argument_sequence, head)
                     ELSE argument_sequence
        sorted == IF Orderless \in attrs THEN sort(flattened) ELSE flattened
    IN <<"Function", head, sorted>>

\* Function(head, Sequence(args))
Function(head, args) == FunctionInit(head, args, None)

\* Function('name', Sequence(args))
F(name, args) == Function(Symbol(name), args)

\* The attributes of an expression (Expression.attributes).
Attributes(e) ==
    CASE IsFunction(e) -> FunctionAttributes(e[2], None)
      [] IsSymbol(e) -> e[3] \cup default_attributes(e[2])
      [] IsNumber(e) -> {Numeric, Constant}
      [] OTHER -> {}

has_attribute(e, attribute) == attribute \in Attributes(e)

\* Pattern.constant: False for Blank and BoundPattern, True for atoms, and
\* for a Function the conjunction over its head and arguments.
RECURSIVE IsConstant(_)
IsConstant(p) ==
    CASE IsBlank(p) -> FALSE
      [] IsBoundPattern(p) -> FALSE
      [] IsFunction(p) -> IsConstant(p[2]) /\ \A i \in 1..Len(p[3]) : IsConstant(p[3][i])
      [] OTHER -> TRUE

-----------------------------------------------------------------------------
(* Bindings: a set of (name, expression) pairs.                            *)

\* Bindings()
EmptyBindings == {}

\* Bindings.__contains__
Contains(bindings, key) == \E p \in bindings : p[1] = key

\* Bindings.__getitem__: the expression of a pair with that name (the first
\* one the set iterates; the matcher never binds a name twice), KeyError
\* when there is none.
Lookup(bindings, key) ==
    IF Contains(bindings, key)
    THEN (CHOOSE p \in bindings : p[1] = key)[2]
    ELSE Error("KeyError")

\* Bindings.bind: set insertion of the pair (an equal pair is kept).
bind(bindings, name, expression) ==
    IF \E p \in bindings : p[1] = name /\ Eq(p[2], expression)
    THEN bindings
    ELSE bindings \cup {<<name, expression>>}

\* Bindings.union: a new Bindings, filled from other and then from self.
union(self, other) ==
    other \cup {p \in self : ~\E q \in other : q[1] = p[1] /\ Eq(q[2], p[2])}

-----------------------------------------------------------------------------
(* Enumerations used by the sequence matchers.                             *)

\* itertools.permutations(s): all orderings, lexicographic in the positions.
RECURSIVE permutations(_)
RECURSIVE PermsFrom(_, _)
PermsFrom(s, i) ==
    IF i > Len(s) THEN <<>>
    ELSE LET rest == permutations(RemoveAt(s, i))
         IN [k \in 1..Len(rest) |-> <<s[i]>> \o rest[k]] \o PermsFrom(s, i + 1)

permutations(s) == IF s = <<>> THEN << <<>> >> ELSE PermsFrom(s, 1)

\* GroupingIterator.__init__: markers and endpoints (values are Python
\* positions, counted from 0).
InitMarkers(number_of_groups) == [i \in 1..(number_of_groups - 1) |-> i - 1]

Endpoints(n, number_of_groups) ==
    [i \in 1..(number_of_groups - 1) |-> n - number_of_groups + (i - 1)]

\* GroupingIterator.has_next: the slices cut at the current markers.
RECURSIVE Slices(_, _, _, _)
Slices(elements, markers, marker, start_slice) ==
    IF marker > Len(markers) THEN
        \* the last slice runs to the end of the list
        << SubSeq(elements, start_slice + 1, Len(elements)) >>
    ELSE LET end_slice == markers[marker]
             hi == IF end_slice + 1 > Len(elements) THEN Len(elements) ELSE end_slice + 1
             slice == SubSeq(elements, start_slice + 1, hi)
         IN <<slice>> \o Slices(elements, markers, marker + 1, start_slice + Len(slice))

\* An _advance that leaves the markers after the bumped one where they are.
AdvanceVariant(markers, endpoints, here) ==
    LET bumped == [markers EXCEPT ![here] = markers[here] + 1]
    IN IF bumped[here] > endpoints[here] THEN <<>> ELSE bumped

\* GroupingIterator._advance: the next markers; the empty list stands for
\* exhausted = True (there is always at least one marker).
RECURSIVE Advance(_, _, _)
Advance(markers, endpoints, here) ==
    LET bumped == [markers EXCEPT ![here] = markers[here] + 1]
    IN IF bumped[here] > endpoints[here]
       THEN IF here - 1 < 1 THEN <<>> ELSE Advance(bumped, endpoints, here - 1)
       ELSE [i \in 1..Len(markers) |->
                IF i <= here THEN bumped[i] ELSE bumped[here] + (i - here)]

\* All the groupings GroupingIterator yields, in order.
RECURSIVE GroupingsFrom(_, _, _)
GroupingsFrom(elements, markers, endpoints) ==
    IF markers = <<>> THEN <<>>
    ELSE << Slices(elements, markers, 1, 0) >>
            \o GroupingsFrom(elements, Advance(markers, endpoints, Len(markers)), endpoints)

GroupingIterator(elements, number_of_groups) ==
    GroupingsFrom(elements, InitMarkers(number_of_groups),
                  Endpoints(Len(elements), number_of_groups))

-----------------------------------------------------------------------------
(* The pattern matcher.  A match iterator is modelled by the list of the   *)
(* items it yields, in order: Match(bindings) items, ended by an Error     *)
(* item when pulling the next match raises.                                *)

Match(bindings) == <<"Match", bindings>>

\* Concatenation of two streams: nothing follows a raised exception.
Cat(first, second) ==
    IF first # <<>> /\ IsError(first[Len(first)]) THEN first ELSE first \o second

RECURSIVE Truthy(_, _, _)
RECURSIVE EagerBind(_, _, _)
RECURSIVE match(_, _, _)
RECURSIVE FunctionSubMatch(_, _, _)
RECURSIVE RationalSubMatch(_, _, _)
RECURSIVE SequenceMatcherFrom(_, _, _, _, _)
RECURSIVE SequenceSubMatch(_, _, _, _, _, _)
RECURSIVE remove_element_that_matches(_, _, _)
RECURSIVE eliminate_from(_, _)
RECURSIVE OrderlessSequenceMatcher(_, _, _)
RECURSIVE OrderlessMatchIterator(_, _, _)
RECURSIVE FlatSequenceMatcher(_, _, _, _)
RECURSIVE FlatMatchIterator(_, _, _, _)
RECURSIVE OrderlessFlatSequenceMatcher(_, _, _, _)
RECURSIVE OrderlessFlatIterator(_, _, _, _)
RECURSIVE SequenceMatch(_, _, _, _, _, _)

\* The bindings object after the part of pattern.match(expression, bindings)
\* that runs when match is called (not when its iterator is pulled): the
\* matches of heads, numerators and real parts, and BoundPattern's bind,
\* which all write into the object they were given.
EagerBind(p, e, bindings) ==
    CASE IsBoundPattern(p) ->
            LET b == EagerBind(p[3], e, bindings)
            IN IF Truthy(p[3], e, bindings) /\ ~Contains(b, p[2])
               THEN bind(b, p[2], e)
               ELSE b
      [] IsFunction(p) -> IF IsFunction(e) THEN EagerBind(p[2], e[2], bindings) ELSE bindings
      [] IsRational(p) -> IF IsRational(e) THEN EagerBind(p[2], e[2], bindings) ELSE bindings
      [] IsComplex(p) -> IF IsComplex(e) THEN EagerBind(p[2], e[2], bindings) ELSE bindings
      [] OTHER -> bindings

\* bool(pattern.match(expression, bindings)): the truth value of the
\* iterator object, which is len() of a SequenceMatchIterator and, for a
\* SubMatchIterator, len() of the iterator it wraps (the match of the head,
\* numerator or real part).
Truthy(p, e, bindings) ==
    CASE IsBlank(p) -> p[2] = None \/ Eq(p[2], HeadOf(e))
      [] IsBoundPattern(p) ->
            /\ Truthy(p[3], e, bindings)
            /\ LET b == EagerBind(p[3], e, bindings)
               IN Contains(b, p[2]) => Eq(Lookup(b, p[2]), e)
      [] IsFunction(p) -> IsFunction(e) /\ Truthy(p[2], e[2], bindings)
      [] IsRational(p) -> IsRational(e) /\ Truthy(p[2], e[2], bindings)
      [] IsComplex(p) -> IsComplex(e) /\ Truthy(p[2], e[2], bindings)
      [] OTHER -> Eq(p, e)

\* pattern.match(expression, bindings) for every class of pattern.
match(p, e, bindings) ==
    CASE IsBlank(p) ->
            \* Blank.match
            IF p[2] = None \/ Eq(p[2], HeadOf(e)) THEN <<Match(bindings)>> ELSE <<>>
      [] IsBoundPattern(p) ->
            \* BoundPattern.match
            IF Truthy(p[3], e, bindings)
            THEN LET b == EagerBind(p[3], e, bindings)
                 IN IF Contains(b, p[2])
                    THEN IF Eq(Lookup(b, p[2]), e) THEN <<Match(b)>> ELSE <<>>
                    ELSE <<Match(bind(b, p[2], e))>>
            ELSE <<>>
      [] IsFunction(p) ->
            \* Function.match
            IF ~IsFunction(e) THEN <<>>
            ELSE FunctionSubMatch(p, e, match(p[2], e[2], bindings))
      [] IsRational(p) ->
            \* Rational.match
            IF ~IsRational(e) THEN <<>>
            ELSE RationalSubMatch(p, e, match(p[2], e[2], bindings))
      [] IsComplex(p) ->
            \* Complex.match: the closure reads expression.argument_sequence,
            \* which a Complex does not have, as soon as the real part yields.
            IF ~IsComplex(e) THEN <<>>
            ELSE LET real_match == match(p[2], e[2], bindings)
                 IN IF real_match = <<>> THEN <<>>
                    ELSE IF IsError(real_match[1]) THEN <<real_match[1]>>
                    ELSE <<Error("AttributeError")>>
      [] OTHER ->
            \* Expression.match
            IF Eq(p, e) THEN <<Match(bindings)>> ELSE <<>>

\* SubMatchIterator over the matches of the head (Function.match).
FunctionSubMatch(p, e, head_match) ==
    IF head_match = <<>> THEN <<>>
    ELSE IF IsError(head_match[1]) THEN <<head_match[1]>>
    ELSE Cat(SequenceMatch(p[3], e[3], head_match[1][2],
                           has_attribute(p, Orderless), has_attribute(p, Flat), p[2]),
             FunctionSubMatch(p, e, Tail(head_match)))

\* SubMatchIterator over the matches of the numerator (Rational.match).
RationalSubMatch(p, e, numerator_match) ==
    IF numerator_match = <<>> THEN <<>>
    ELSE IF IsError(numerator_match[1]) THEN <<numerator_match[1]>>
    ELSE Cat(match(p[3], e[3], numerator_match[1][2]),
             RationalSubMatch(p, e, Tail(numerator_match)))

\* Sequence.match: the choice of the matcher.
SequenceMatch(patterns, expressions, bindings, orderless, flat, head) ==
    IF orderless /\ flat THEN OrderlessFlatSequenceMatcher(expressions, patterns, bindings, head)
    ELSE IF orderless THEN OrderlessSequenceMatcher(expressions, patterns, bindings)
    ELSE IF flat THEN FlatSequenceMatcher(expressions, patterns, bindings, head)
    ELSE SequenceMatcherFrom(expressions, patterns, bindings, 0, EmptyBindings)

\* SequenceMatcher._match(position, bindings); self_bindings is the
\* matcher's own field.
SequenceMatcherFrom(expressions, patterns, self_bindings, position, bindings) ==
    IF Len(patterns) # Len(expressions) THEN <<>>
    ELSE LET b == union(bindings, self_bindings)
         IN IF position >= Len(patterns) THEN <<Match(b)>>
            ELSE SequenceSubMatch(expressions, patterns, self_bindings, position, b,
                                  match(patterns[position + 1], expressions[position + 1], b))

SequenceSubMatch(expressions, patterns, self_bindings, position, b, ms) ==
    IF ms = <<>> THEN <<>>
    ELSE IF IsError(ms[1]) THEN <<ms[1]>>
    ELSE Cat(SequenceMatcherFrom(expressions, patterns, self_bindings, position + 1,
                                 union(b, ms[1][2])),
             SequenceSubMatch(expressions, patterns, self_bindings, position, b, Tail(ms)))

\* SequenceMatcher(expressions, patterns, bindings).__iter__()
SequenceMatcher(expressions, patterns, bindings) ==
    SequenceMatcherFrom(expressions, patterns, bindings, 0, EmptyBindings)

\* MatchHelper._remove_element_that_matches: <<True, the list without the
\* first element on which pattern.match is true>>, or <<False>>.
remove_element_that_matches(expressions, pattern, i) ==
    IF i > Len(expressions) THEN <<FALSE>>
    ELSE IF Truthy(pattern, expressions[i], EmptyBindings)
         THEN <<TRUE, RemoveAt(expressions, i)>>
    ELSE remove_element_that_matches(expressions, pattern, i + 1)

\* MatchHelper.eliminate_constants: the loop over the constant patterns.
eliminate_from(expressions, constant_patterns) ==
    IF constant_patterns = <<>> THEN <<TRUE, expressions>>
    ELSE LET removed == remove_element_that_matches(expressions, Head(constant_patterns), 1)
         IN IF ~removed[1] THEN <<FALSE>>
            ELSE eliminate_from(removed[2], Tail(constant_patterns))

\* MatchHelper.eliminate_constants, and eliminate_bound_patterns which only
\* calls it: <<worked, expressions, patterns>>.
eliminate_constants(expressions, patterns) ==
    LET constant_patterns == SelectSeq(patterns, IsConstant)
        remaining == eliminate_from(expressions, constant_patterns)
    IN IF ~remaining[1] THEN <<FALSE, None, None>>
       ELSE <<TRUE, remaining[2], SelectSeq(patterns, LAMBDA p : ~IsConstant(p))>>

eliminate_bound_patterns(expressions, patterns, bindings) ==
    eliminate_constants(expressions, patterns)

\* OrderlessSequenceMatcher._match
OrderlessSequenceMatcher(expressions, patterns, bindings) ==
    IF Len(expressions) # Len(patterns) THEN <<>>
    ELSE IF Len(patterns) = 0 THEN
        \* SequenceMatchIterator(Match(...)): len() of a Match raises
        <<Error("TypeError")>>
    ELSE LET r == eliminate_bound_patterns(expressions, patterns, bindings)
         IN IF ~r[1] THEN <<>>
            ELSE OrderlessMatchIterator(permutations(r[2]), r[3], bindings)

\* OrderlessMatchIterator.__next__ over the remaining orderings.
OrderlessMatchIterator(expression_orderings, patterns, bindings) ==
    IF expression_orderings = <<>> THEN <<>>
    ELSE Cat(SequenceMatcher(Head(expression_orderings), patterns, bindings),
             OrderlessMatchIterator(Tail(expression_orderings), patterns, bindings))

\* The list FlatMatchIterator matches the patterns against: a group of
\* several elements becomes a Function of the head with Flat.
GroupExpressions(grouping, head) ==
    LET nonempty == SelectSeq(grouping, LAMBDA seq : Len(seq) # 0)
    IN [i \in 1..Len(nonempty) |->
            IF Len(nonempty[i]) > 1 THEN FunctionInit(head, nonempty[i], <<Flat>>)
            ELSE nonempty[i][1]]

\* FlatMatchIterator.__next__ over the remaining groupings.
FlatMatchIterator(expression_groupings, patterns, bindings, head) ==
    IF expression_groupings = <<>> THEN <<>>
    ELSE Cat(SequenceMatcher(GroupExpressions(Head(expression_groupings), head), patterns, bindings),
             FlatMatchIterator(Tail(expression_groupings), patterns, bindings, head))

\* FlatSequenceMatcher._match
FlatSequenceMatcher(expressions, patterns, bindings, head) ==
    IF Len(patterns) > Len(expressions) THEN <<>>
    ELSE IF Len(patterns) = 0 THEN
        (IF Len(expressions) = 0 THEN <<Match(bindings)>> ELSE <<>>)
    ELSE IF Len(patterns) = Len(expressions) THEN
        SequenceMatcher(expressions, patterns, bindings)
    ELSE IF Len(patterns) = 1 THEN
        match(patterns[1], FunctionInit(head, expressions, <<Flat>>), bindings)
    ELSE FlatMatchIterator(GroupingIterator(expressions, Len(patterns)), patterns, bindings, head)

\* self.bindings of an OrderlessFlatIterator after one ordering was tried:
\* FlatSequenceMatcher hands the object itself to the match of a single
\* pattern, which binds into it; every other branch copies it first.
FlatShared(expressions, patterns, bindings, head) ==
    IF Len(patterns) = 1 /\ Len(expressions) > 1
    THEN EagerBind(patterns[1], FunctionInit(head, expressions, <<Flat>>), bindings)
    ELSE bindings

\* OrderlessFlatIterator.__next__ over the remaining orderings.
OrderlessFlatIterator(expression_orderings, patterns, bindings, head) ==
    IF expression_orderings = <<>> THEN <<>>
    ELSE Cat(FlatSequenceMatcher(Head(expression_orderings), patterns, bindings, head),
             OrderlessFlatIterator(Tail(expression_orderings), patterns,
                                   FlatShared(Head(expression_orderings), patterns, bindings, head),
                                   head))

\* A matcher that would find no match.
OrderlessFlatSequenceMatcherVariant(expressions, patterns, bindings, head) == <<>>

\* OrderlessFlatSequenceMatcher._match
OrderlessFlatSequenceMatcher(expressions, patterns, bindings, head) ==
    IF Len(patterns) > Len(expressions) THEN <<>>
    ELSE IF Len(patterns) = 0 THEN
        (IF Len(expressions) = 0 THEN <<Match(bindings)>> ELSE <<>>)
    ELSE IF Len(expressions) = 0 THEN <<>>
    ELSE IF Len(patterns) = Len(expressions) THEN
        OrderlessSequenceMatcher(expressions, patterns, bindings)
    ELSE LET r == eliminate_bound_patterns(expressions, patterns, bindings)
         IN IF ~r[1] THEN <<>>
            ELSE OrderlessFlatIterator(permutations(r[2]), r[3], bindings, head)

-----------------------------------------------------------------------------
(* Python numbers.  An int is <<"int", v>>; a float is <<"float", n, d>>,  *)
(* the quotient n/d in lowest terms with d > 0 (the float nearest to it).  *)

PyInt(v) == <<"int", v>>

Abs(v) == IF v < 0 THEN -v ELSE v

RECURSIVE Euclid(_, _)
Euclid(a, b) == IF b = 0 THEN a ELSE Euclid(b, a % b)

PyFloat(n, d) ==
    LET g == Euclid(Abs(n), Abs(d))
        s == IF d < 0 THEN -1 ELSE 1
    IN <<"float", (s * n) \div g, (s * d) \div g>>

IsPyInt(x) == x[1] = "int"
IsPyFloat(x) == x[1] = "float"

\* the numerator and denominator of an int or float
PyNum(x) == x[2]
PyDen(x) == IF IsPyInt(x) THEN 1 ELSE x[3]

\* x + y: an int for two ints, a float otherwise
PyAdd(x, y) ==
    IF IsPyInt(x) /\ IsPyInt(y) THEN PyInt(x[2] + y[2])
    ELSE PyFloat(PyNum(x) * PyDen(y) + PyNum(y) * PyDen(x), PyDen(x) * PyDen(y))

\* x * y
PyMul(x, y) ==
    IF IsPyInt(x) /\ IsPyInt(y) THEN PyInt(x[2] * y[2])
    ELSE PyFloat(PyNum(x) * PyNum(y), PyDen(x) * PyDen(y))

\* x / y: always a float; ZeroDivisionError for a zero divisor
PyTrueDiv(x, y) ==
    IF PyNum(y) = 0 THEN Error("ZeroDivisionError")
    ELSE PyFloat(PyNum(x) * PyDen(y), PyDen(x) * PyNum(y))

\* int(f): truncation toward zero
IntOfFloat(f) == IF f[2] < 0 THEN -((-f[2]) \div f[3]) ELSE f[2] \div f[3]

\* base ** exponent for ints with a non-negative exponent
RECURSIVE PyPow(_, _)
PyPow(base, exponent) == IF exponent = 0 THEN 1 ELSE base * PyPow(base, exponent - 1)

-----------------------------------------------------------------------------
(* Number classes: constructors and arithmetic.                            *)

RECURSIVE gcd(_, _)
RECURSIVE BinaryOperator(_, _, _)
RECURSIVE RationalAdd(_, _)
RECURSIVE RationalMul(_, _)
RECURSIVE ComplexTruediv(_, _)

\* x + y, x * y, x / y and x - y between expressions: the interpreter calls
\* the method of the class of x (BinaryOperator below).
Add(x, y) == BinaryOperator("+", x, y)
Mul(x, y) == BinaryOperator("*", x, y)
Div(x, y) == BinaryOperator("/", x, y)
Sub(x, y) == BinaryOperator("-", x, y)

\* Integer.value / Real.value
ValueOf(e) == IF IsInteger(e) THEN PyInt(e[2]) ELSE e[2]

\* Real(value): asserts that value is a float
Real(value) ==
    IF IsError(value) THEN value
    ELSE IF IsPyFloat(value) THEN <<"Real", value>>
    ELSE Error("AssertionError")

\* Real(value) for a value that is an expression or None: the assertion
\* fails, unless the computation of the value has raised before.
RealOfExpression(value) == IF IsError(value) THEN value ELSE Error("AssertionError")

\* Integer(value) for a computed Python value: asserts that it is an int
IntegerOf(value) ==
    IF IsError(value) THEN value
    ELSE IF IsPyInt(value) THEN Integer(value[2])
    ELSE Error("AssertionError")

\* A gcd that loses the factor 2 two even values share.
gcdVariant(a, b) ==
    LET g == Euclid(Abs(a[2]), Abs(b[2]))
    IN Integer(IF a[2] % 2 = 0 /\ b[2] % 2 = 0 /\ g # 0 THEN g \div 2 ELSE g)

\* Rational.gcd: the binary algorithm on |a| and |b|
gcd(a, b) ==
    LET x == Abs(a[2])
        y == Abs(b[2])
    IN IF x = 0 /\ y = 0 THEN Integer(0)
       ELSE IF x = 0 THEN Integer(y)
       ELSE IF y = 0 THEN Integer(x)
       ELSE IF x % 2 = 0 /\ y % 2 = 0 THEN Integer(2 * gcd(Integer(x \div 2), Integer(y \div 2))[2])
       ELSE IF x % 2 = 0 THEN gcd(Integer(x \div 2), Integer(y))
       ELSE IF y % 2 = 0 THEN gcd(Integer(x), Integer(y \div 2))
       ELSE IF x >= y THEN gcd(Integer((x - y) \div 2), Integer(y))
       ELSE gcd(Integer((y - x) \div 2), Integer(x))

\* The sign normalisation at the end of Rational.__init__, on the values
\* left by the division by the gcd: <<numerator, denominator>>.
RationalSigns(n, d) ==
    LET n1 == IF d < 0 /\ n < 0 THEN Abs(n) ELSE n
        d1 == IF d < 0 /\ n < 0 THEN Abs(d) ELSE d
        n2 == IF d1 < 0 /\ 0 < n1 THEN -1 * n1 ELSE n1
        d2 == IF d1 < 0 /\ 0 < n1 THEN Abs(d1) ELSE d1
    IN <<n2, d2>>

\* Rational(numerator, denominator)
Rational(numerator, denominator) ==
    IF IsError(numerator) THEN numerator
    ELSE IF IsError(denominator) THEN denominator
    ELSE IF IsInteger(numerator) /\ IsInteger(denominator) /\ denominator[2] # 0
    THEN LET g == gcd(numerator, denominator)
             d == IntOfFloat(PyTrueDiv(PyInt(denominator[2]), PyInt(g[2])))
             n == IntOfFloat(PyTrueDiv(PyInt(numerator[2]), PyInt(g[2])))
             nd == RationalSigns(n, d)
         IN <<"Rational", Integer(nd[1]), Integer(nd[2])>>
    ELSE <<"Rational", numerator, denominator>>

\* The object with the fields real and imaginary.
ComplexParts(real, imaginary) ==
    IF IsError(real) THEN real ELSE <<"Complex", real, imaginary>>

\* A constructor that would keep a Complex imaginary part as it is.
ComplexOfImaginaryVariant(real, imaginary) ==
    IF IsError(imaginary) THEN imaginary ELSE <<"Complex", real, imaginary>>

\* The second step of Complex.__init__: a Complex imaginary part gives its
\* imaginary part to the real part (self.real -= ...) and is replaced by its
\* real part.
ComplexOfImaginary(real, imaginary) ==
    IF IsError(imaginary) THEN imaginary
    ELSE IF IsComplex(imaginary) THEN ComplexParts(Sub(real, imaginary[3]), imaginary[2])
    ELSE <<"Complex", real, imaginary>>

\* Complex(real, imaginary): a Complex real part first gives its imaginary
\* part to the imaginary part (self.imaginary += ...) and is replaced by its
\* real part.
Complex(real, imaginary) ==
    IF IsError(real) THEN real
    ELSE IF IsError(imaginary) THEN imaginary
    ELSE IF ~(IsNumber(real) /\ IsNumber(imaginary)) THEN Error("AssertionError")
    ELSE IF IsComplex(real) THEN ComplexOfImaginary(real[2], Add(imaginary, real[3]))
    ELSE ComplexOfImaginary(real, imaginary)

\* The tail shared by the Complex results: a zero Integer imaginary part
\* collapses to the real part.
Collapse(tmp) ==
    IF IsError(tmp) THEN tmp
    ELSE IF IsInteger(tmp[3]) /\ tmp[3][2] = 0 THEN tmp[2]
    ELSE tmp

\* The tail shared by the Rational results.
Simplify(tmp) ==
    IF IsError(tmp) THEN tmp
    ELSE IF tmp[2][2] = 0 THEN Integer(0)
    ELSE IF tmp[3][2] = 1 THEN tmp[2]
    ELSE tmp

\* Integer.__add__
IntegerAdd(self, other) ==
    CASE IsInteger(other) -> IntegerOf(PyAdd(ValueOf(self), ValueOf(other)))
      [] IsReal(other) -> Real(PyAdd(ValueOf(self), ValueOf(other)))
      [] IsRational(other) -> RationalAdd(other, Rational(self, Integer(1)))
      [] IsComplex(other) -> Collapse(Complex(Add(other[2], self), other[3]))
      [] OTHER -> None

\* Integer.__mul__
IntegerMul(self, other) ==
    CASE IsInteger(other) -> IntegerOf(PyMul(ValueOf(self), ValueOf(other)))
      [] IsReal(other) -> Real(PyMul(ValueOf(self), ValueOf(other)))
      [] IsRational(other) -> RationalMul(other, Rational(self, Integer(1)))
      [] IsComplex(other) -> Collapse(Complex(Mul(other[2], self), Mul(other[3], self)))
      [] OTHER -> None

\* Integer.__truediv__
IntegerTruediv(self, other) ==
    CASE IsInteger(other) -> Real(PyTrueDiv(ValueOf(self), ValueOf(other)))
      [] IsReal(other) -> Real(PyTrueDiv(ValueOf(self), ValueOf(other)))
      [] IsRational(other) -> Simplify(Rational(Mul(self, other[3]), other[2]))
      [] IsComplex(other) -> ComplexTruediv(Complex(self, Integer(0)), other)
      [] OTHER -> None

\* Real.__add__
RealAdd(self, other) ==
    CASE IsInteger(other) -> Real(PyAdd(ValueOf(self), ValueOf(other)))
      [] IsReal(other) -> Real(PyAdd(ValueOf(self), ValueOf(other)))
      [] IsRational(other) -> RationalAdd(other, self)
      [] IsComplex(other) -> Collapse(Complex(Add(other[2], self), other[3]))
      [] OTHER -> None

\* Real.__mul__
RealMul(self, other) ==
    CASE IsInteger(other) -> Real(PyMul(ValueOf(self), ValueOf(other)))
      [] IsReal(other) -> Real(PyMul(ValueOf(self), ValueOf(other)))
      [] IsRational(other) -> RationalMul(other, self)
      [] IsComplex(other) -> Collapse(Complex(Mul(other[2], self), Mul(other[3], self)))
      [] OTHER -> None

\* Real.__truediv__
RealTruediv(self, other) ==
    CASE IsInteger(other) -> Real(PyTrueDiv(ValueOf(self), ValueOf(other)))
      [] IsReal(other) -> Real(PyTrueDiv(ValueOf(self), ValueOf(other)))
      [] IsRational(other) ->
            \* Real(<a Real>): the argument is an expression, not a float
            RealOfExpression(Div(Mul(self, other[3]), other[2]))
      [] IsComplex(other) -> ComplexTruediv(Complex(self, Integer(0)), other)
      [] OTHER -> None

\* Rational.__add__
RationalAdd(self, other) ==
    CASE IsInteger(other) -> RationalAdd(self, Rational(other, Integer(1)))
      [] IsReal(other) -> Add(Div(self[2], self[3]), other)
      [] IsRational(other) ->
            Simplify(Rational(Add(Mul(self[2], other[3]), Mul(self[3], other[2])),
                              Mul(self[3], other[3])))
      [] IsComplex(other) -> Collapse(Complex(Add(other[2], self), other[3]))
      [] OTHER -> None

\* Rational.__mul__
RationalMul(self, other) ==
    CASE IsInteger(other) -> RationalMul(self, Rational(other, Integer(1)))
      [] IsReal(other) -> Mul(Div(self[2], self[3]), other)
      [] IsRational(other) ->
            Simplify(Rational(Mul(self[2], other[2]), Mul(self[3], other[3])))
      [] IsComplex(other) -> Collapse(Complex(Mul(other[2], self), Mul(other[3], self)))
      [] OTHER -> None

\* Rational.__truediv__
RationalTruediv(self, other) ==
    CASE IsInteger(other) -> Simplify(Rational(self[2], Mul(self[3], other)))
      [] IsReal(other) ->
            \* (a Real) / other.value is None, and Real(None) asserts
            RealOfExpression(Div(self[2], self[3]))
      [] IsRational(other) -> Mul(self, Rational(other[3], other[2]))
      [] IsComplex(other) -> ComplexTruediv(Complex(self, Integer(0)), other)
      [] OTHER -> None

\* Complex.__add__
ComplexAdd(self, other) ==
    IF IsComplex(other)
    THEN Collapse(Complex(Add(self[2], other[2]), Add(self[3], other[3])))
    ELSE Collapse(Complex(Add(self[2], other), self[3]))

\* Complex.__mul__
ComplexMul(self, other) ==
    CASE IsInteger(other) \/ IsReal(other) \/ IsRational(other) ->
            Collapse(Complex(Mul(self[2], other), Mul(self[3], other)))
      [] IsComplex(other) ->
            Collapse(Complex(Sub(Mul(self[2], other[2]), Mul(self[3], other[3])),
                             Add(Mul(self[2], other[3]), Mul(self[3], other[2]))))
      [] OTHER -> None

\* tmp.real / div and tmp.imaginary / div in Complex.__truediv__
ComplexQuotientPart(part, div) ==
    IF IsInteger(part) /\ IsInteger(div) THEN Mul(Rational(part, div), Integer(1))
    ELSE Div(part, div)

\* tmp after the assignment of its two fields (they are assigned, not
\* constructed), and the return.
ComplexAssigned(real, imaginary) ==
    IF IsError(real) THEN real
    ELSE IF IsError(imaginary) THEN imaginary
    ELSE Collapse(<<"Complex", real, imaginary>>)

ComplexQuotient(div, tmp) ==
    IF IsError(div) THEN div
    ELSE IF IsError(tmp) THEN tmp
    ELSE ComplexAssigned(ComplexQuotientPart(tmp[2], div), ComplexQuotientPart(tmp[3], div))

\* Complex.__truediv__
ComplexTruediv(self, other) ==
    IF IsError(self) THEN self
    ELSE IF IsComplex(other)
    THEN ComplexQuotient(Add(Mul(other[2], other[2]), Mul(other[3], other[3])),
                         Complex(Add(Mul(self[2], other[2]), Mul(self[3], other[3])),
                                 Sub(Mul(self[3], other[2]), Mul(self[2], other[3]))))
    ELSE ComplexTruediv(self, Complex(other, Integer(0)))

\* The dispatch of a binary operator on the class of its left operand; a
\* raised exception in an operand is raised by the whole expression.
\* x - y is Number.__sub__: self + other * Integer(-1).
BinaryOperator(op, x, y) ==
    IF IsError(x) THEN x ELSE IF IsError(y) THEN y
    ELSE CASE op = "+" ->
                CASE IsInteger(x) -> IntegerAdd(x, y)
                  [] IsReal(x) -> RealAdd(x, y)
                  [] IsRational(x) -> RationalAdd(x, y)
                  [] IsComplex(x) -> ComplexAdd(x, y)
                  [] OTHER -> Error("TypeError")
           [] op = "*" ->
                CASE IsInteger(x) -> IntegerMul(x, y)
                  [] IsReal(x) -> RealMul(x, y)
                  [] IsRational(x) -> RationalMul(x, y)
                  [] IsComplex(x) -> ComplexMul(x, y)
                  [] OTHER -> Error("TypeError")
           [] op = "/" ->
                CASE IsInteger(x) -> IntegerTruediv(x, y)
                  [] IsReal(x) -> RealTruediv(x, y)
                  [] IsRational(x) -> RationalTruediv(x, y)
                  [] IsComplex(x) -> ComplexTruediv(x, y)
                  [] OTHER -> Error("TypeError")
           [] op = "-" ->
                BinaryOperator("+", x, BinaryOperator("*", y, Integer(-1)))

-----------------------------------------------------------------------------
(* Substitution of an expression under a bindings environment.             *)

\* A substitute that leaves the pattern variables in place.
substituteVariant(e, bindings) == e

RECURSIVE substitute(_, _)
substitute(e, bindings) ==
    CASE IsSymbol(e) ->
            \* Symbol.substitute
            IF Contains(bindings, e[2]) THEN Lookup(bindings, e[2]) ELSE e
      [] IsFunction(e) ->
            \* Function.substitute and Sequence.substitute
            LET new_head == substitute(e[2], bindings)
                new_expressions == [i \in 1..Len(e[3]) |-> substitute(e[3][i], bindings)]
            IN IF IsError(new_head) THEN new_head
               ELSE IF FirstError(new_expressions) # None THEN FirstError(new_expressions)
               ELSE Function(new_head, new_expressions)
      [] IsBlank(e) \/ IsBoundPattern(e) ->
            \* Pattern has no substitute method
            Error("AttributeError")
      [] IsError(e) -> e
      [] e = None -> Error("AttributeError")
      [] OTHER ->
            \* Expression.substitute (numbers): returns self; no pattern
            \* variable of the model is named like the head of a number
            e

-----------------------------------------------------------------------------
(* Rules.                                                                  *)

SymTrue == Symbol("True")
SymFalse == Symbol("False")

SubstitutionRule(pattern, substitution, guards) ==
    [kind |-> "SubstitutionRule", pattern |-> pattern, rhs |-> substitution, guards |-> guards]

\* code names one of the callbacks of Code below
LambdaRule(pattern, code, guards) ==
    [kind |-> "LambdaRule", pattern |-> pattern, rhs |-> <<"code", code>>, guards |-> guards]

\* The callbacks of the LambdaRules: those of the shipped rule pack
\* (initialize_rules.py, by name of the function they serve) and "GetX",
\* lambda b: b['x'].
Code(code, b) ==
    CASE code = "ConstantQ" ->
            LET a == Lookup(b, "a")
            IN IF IsError(a) THEN a
               ELSE IF has_attribute(a, Constant) THEN SymTrue ELSE SymFalse
      [] code = "RealQ" ->
            LET a == Lookup(b, "a")
            IN IF IsError(a) THEN a
               ELSE IF IsNumber(a) /\ ~IsComplex(a) THEN SymTrue ELSE SymFalse
      [] code = "PositiveQ" ->
            LET a == Lookup(b, "a")
            IN IF IsError(a) THEN a
               ELSE IF ~(IsInteger(a) \/ IsReal(a)) THEN Error("AttributeError")
               ELSE IF PyNum(ValueOf(a)) > 0 THEN SymTrue ELSE SymFalse
      [] code = "NonNegativeQ" ->
            LET a == Lookup(b, "a")
            IN IF IsError(a) THEN a
               ELSE IF ~(IsInteger(a) \/ IsReal(a)) THEN Error("AttributeError")
               ELSE IF PyNum(ValueOf(a)) >= 0 THEN SymTrue ELSE SymFalse
      [] code = "PlusABc" ->
            LET sum == Add(Lookup(b, "a"), Lookup(b, "b"))
            IN IF IsError(sum) THEN sum
               ELSE Function(Symbol("Plus"), <<sum, Symbol("c")>>)
      [] code = "PlusAB" -> Add(Lookup(b, "a"), Lookup(b, "b"))
      [] code = "TimesAB" -> Mul(Lookup(b, "a"), Lookup(b, "b"))
      [] code = "PowerAB" ->
            LET base == Lookup(b, "a")
                exponent == Lookup(b, "b")
            IN IF IsError(base) THEN base
               ELSE IF IsError(exponent) THEN exponent
               ELSE IF ~(IsInteger(base) /\ IsInteger(exponent)) THEN Error("AttributeError")
               ELSE IF exponent[2] < 0 THEN Error("AssertionError")
               ELSE Integer(PyPow(base[2], exponent[2]))
      [] code = "GetX" -> Lookup(b, "x")

\* The right-hand side of a rule under the bindings of a match:
\* self.substitution.substitute(bindings), self.code(bindings).substitute(bindings)
Rewrite(rule, bindings) ==
    IF rule.kind = "SubstitutionRule" THEN substitute(rule.rhs, bindings)
    ELSE substitute(Code(rule.rhs[2], bindings), bindings)

-----------------------------------------------------------------------------
(* Rule.apply and Kernel.evaluate as functions of the rule list.  The fuel *)
(* bounds the number of nested steps followed; NoResult is the answer when *)
(* it runs out (the call has not returned within the bound).               *)

NoResult == Error("NoResult")

\* A test that would accept every guard value except False.
GuardHoldsVariant(value) == ~Eq(value, SymFalse)

\* The test made on the value of a guard in both apply methods:
\* kernel.evaluate(guard.substitute(bindings)) == Symbol('True')
GuardHolds(value) == Eq(value, SymTrue)

\* A LambdaRule that would give up after its first match, as a SubstitutionRule does.
MatchesAfterGuardFailureVariant(rule, ms) == <<>>

\* The matches still to be tried once the guards have failed under the first
\* match of ms: a SubstitutionRule returns (False, expression) at once, the
\* for loop of a LambdaRule goes on to the next match.
MatchesAfterGuardFailure(rule, ms) ==
    IF rule.kind = "SubstitutionRule" THEN <<>> ELSE Tail(ms)

RECURSIVE Evaluate(_, _, _)
RECURSIVE RootLoop(_, _, _)
RECURSIVE ApplyMatches(_, _, _, _, _)
RECURSIVE GuardsOf(_, _, _, _, _, _)

\* The loop over the guards of a rule under the bindings b, from guard i:
\* "ok", "fail", or the exception raised.  A SubstitutionRule returns at the
\* first guard that is not True; a LambdaRule evaluates every guard.
GuardsOf(rule, b, i, satisfied, rs, fuel) ==
    IF i > Len(rule.guards) THEN (IF satisfied THEN <<"ok">> ELSE <<"fail">>)
    ELSE LET guard == substitute(rule.guards[i], b)
             value == IF IsError(guard) THEN guard ELSE Evaluate(guard, rs, fuel - 1)
         IN IF IsError(value) THEN value
            ELSE IF GuardHolds(value) THEN GuardsOf(rule, b, i + 1, satisfied, rs, fuel)
            ELSE IF rule.kind = "SubstitutionRule" THEN <<"fail">>
            ELSE GuardsOf(rule, b, i + 1, FALSE, rs, fuel)

\* The loop "for match in self.pattern.match(expression, bindings)" of
\* SubstitutionRule.apply and LambdaRule.apply over the matches ms:
\* <<"changed", rewrite>>, <<"unchanged", expression>> or the exception.
ApplyMatches(rule, expression, ms, rs, fuel) ==
    IF ms = <<>> THEN <<"unchanged", expression>>
    ELSE IF IsError(ms[1]) THEN ms[1]
    ELSE LET b == ms[1][2]
             g == GuardsOf(rule, b, 1, TRUE, rs, fuel)
         IN IF IsError(g) THEN g
            ELSE IF g[1] = "ok"
            THEN LET new == Rewrite(rule, b)
                 IN IF IsError(new) THEN new ELSE <<"changed", new>>
            ELSE ApplyMatches(rule, expression, MatchesAfterGuardFailure(rule, ms), rs, fuel)

\* rule.apply(expression), the guards evaluated with the rule list rs
Apply(rule, expression, rs, fuel) ==
    ApplyMatches(rule, expression, match(rule.pattern, expression, EmptyBindings), rs, fuel)

\* The while loop of Kernel.evaluate: each pass applies the rules in order
\* up to the first one that reports a change (or raises), then starts over
\* on the rewritten expression; a pass without a change ends the loop.
RootLoop(expression, rs, fuel) ==
    IF fuel <= 0 THEN NoResult
    ELSE LET results == [i \in 1..Len(rs) |-> Apply(rs[i], expression, rs, fuel)]
             hits == {i \in 1..Len(rs) : results[i][1] # "unchanged"}
         IN IF hits = {} THEN expression
            ELSE LET first == CHOOSE i \in hits : \A j \in hits : i <= j
                     r == results[first]
                 IN IF IsError(r) THEN r ELSE RootLoop(r[2], rs, fuel - 1)

\* Kernel.evaluate(expression)
Evaluate(expression, rs, fuel) ==
    IF fuel <= 0 THEN NoResult
    ELSE LET rewritten == RootLoop(expression, rs, fuel)
         IN IF IsError(rewritten) THEN rewritten
            ELSE LET subterms == IF IsFunction(rewritten)
                                 THEN <<rewritten[2]>> \o rewritten[3] ELSE <<>>
                     evaluated == [i \in 1..Len(subterms) |-> Evaluate(subterms[i], rs, fuel - 1)]
                     rebuilt == IF IsFunction(rewritten)
                                THEN Function(evaluated[1], Tail(evaluated))
                                ELSE rewritten
                 IN IF FirstError(evaluated) # None THEN FirstError(evaluated)
                    ELSE IF ~Eq(expression, rebuilt) THEN Evaluate(rebuilt, rs, fuel - 1)
                    ELSE rebuilt

-----------------------------------------------------------------------------
(* The shipped rule pack.                                                  *)

\* kernel.rules after initialize_rules.py has run, in registration order
initialize_rules == <<
    LambdaRule(Function(Symbol("ConstantQ"), <<BoundPattern("a", Blank(None))>>), "ConstantQ", <<>>),
    LambdaRule(Function(Symbol("RealQ"), <<BoundPattern("a", Blank(None))>>), "RealQ", <<>>),
    SubstitutionRule(Function(Symbol("RealQ"), <<Symbol("E")>>), Symbol("True"), <<>>),
    SubstitutionRule(Function(Symbol("RealQ"), <<Symbol("Pi")>>), Symbol("True"), <<>>),
    LambdaRule(Function(Symbol("PositiveQ"), <<BoundPattern("a", Blank(Symbol("Integer")))>>), "PositiveQ", <<>>),
    LambdaRule(Function(Symbol("NonNegativeQ"), <<BoundPattern("a", Blank(Symbol("Integer")))>>), "NonNegativeQ", <<>>),
    SubstitutionRule(Rational(BoundPattern("a", Blank(None)), Integer(1)), Symbol("a"), <<>>),
    LambdaRule(Function(Symbol("Plus"), <<BoundPattern("a", Blank(Symbol("Integer"))), BoundPattern("b", Blank(Symbol("Integer"))), BoundPattern("c", Blank(None))>>), "PlusABc", <<>>),
    LambdaRule(Function(Symbol("Plus"), <<BoundPattern("a", Blank(Symbol("Integer"))), BoundPattern("b", Blank(Symbol("Integer")))>>), "PlusAB", <<>>),
    LambdaRule(Function(Symbol("Times"), <<BoundPattern("a", Blank(Symbol("Integer"))), BoundPattern("b", Blank(Symbol("Integer")))>>), "TimesAB", <<>>),
    LambdaRule(Function(Symbol("Power"), <<BoundPattern("a", Blank(Symbol("Integer"))), BoundPattern("b", Blank(Symbol("Integer")))>>), "PowerAB", <<Function(Symbol("NonNegativeQ"), <<Symbol("b")>>)>>),
    SubstitutionRule(Function(Symbol("Plus"), <<BoundPattern("a", Blank(None)), Integer(0)>>), Symbol("a"), <<>>),
    SubstitutionRule(Function(Symbol("Plus"), <<BoundPattern("a", Blank(None)), Function(Symbol("Times"), <<BoundPattern("b", Blank(None)), BoundPattern("a", Blank(None))>>)>>), Function(Symbol("Times"), <<Symbol("a"), Function(Symbol("Plus"), <<Symbol("b"), Integer(1)>>)>>), <<>>),
    SubstitutionRule(Function(Symbol("Times"), <<Blank(None), Integer(0)>>), Integer(0), <<>>),
    SubstitutionRule(Function(Symbol("Plus"), <<BoundPattern("a", Blank(None)), BoundPattern("a", Blank(None)), BoundPattern("b", Blank(None))>>), Function(Symbol("Plus"), <<Symbol("b"), Function(Symbol("Times"), <<Symbol("a"), Integer(2)>>)>>), <<>>),
    SubstitutionRule(Function(Symbol("Plus"), <<BoundPattern("a", Blank(None)), BoundPattern("a", Blank(None))>>), Function(Symbol("Times"), <<Symbol("a"), Integer(2)>>), <<>>),
    SubstitutionRule(Function(Symbol("Times"), <<BoundPattern("a", Blank(None)), Integer(1)>>), Symbol("a"), <<>>),
    SubstitutionRule(Function(Symbol("Times"), <<BoundPattern("a", Blank(None)), BoundPattern("a", Blank(None))>>), Function(Symbol("Power"), <<Symbol("a"), Integer(2)>>), <<>>),
    SubstitutionRule(Function(Symbol("Times"), <<BoundPattern("b", Blank(None)), BoundPattern("a", Blank(None)), BoundPattern("a", Blank(None))>>), Function(Symbol("Times"), <<Function(Symbol("Power"), <<Symbol("a"), Integer(2)>>), Symbol("b")>>), <<>>),
    SubstitutionRule(Function(Symbol("Log"), <<Function(Symbol("Power"), <<Symbol("E"), BoundPattern("a", Blank(None))>>)>>), Symbol("a"), <<Function(Symbol("RealQ"), <<Symbol("a")>>)>>),
    SubstitutionRule(Function(Symbol("Log"), <<Integer(1)>>), Integer(0), <<>>),
    SubstitutionRule(Function(Symbol("Log"), <<BoundPattern("a", Blank(None)), BoundPattern("b", Blank(None))>>), Function(Symbol("Times"), <<Function(Symbol("Log"), <<Symbol("b")>>), Function(Symbol("Power"), <<Function(Symbol("Log"), <<Symbol("a")>>), Integer(-1)>>)>>), <<>>),
    SubstitutionRule(Function(Symbol("Log10"), <<BoundPattern("a", Blank(None))>>), Function(Symbol("Times"), <<Function(Symbol("Log"), <<Symbol("a")>>), Function(Symbol("Power"), <<Function(Symbol("Log"), <<Integer(10)>>), Integer(-1)>>)>>), <<>>),
    SubstitutionRule(Function(Symbol("Log2"), <<BoundPattern("a", Blank(None))>>), Function(Symbol("Times"), <<Function(Symbol("Log"), <<Symbol("a")>>), Function(Symbol("Power"), <<Function(Symbol("Log"), <<Integer(2)>>), Integer(-1)>>)>>), <<>>),
    SubstitutionRule(Function(Symbol("D"), <<Function(Symbol("Power"), <<BoundPattern("a", Blank(None)), BoundPattern("b", Blank(None))>>), BoundPattern("x", Blank(Symbol("Symbol")))>>), Function(Symbol("Times"), <<Function(Symbol("Power"), <<Symbol("a"), Symbol("b")>>), Function(Symbol("Plus"), <<Function(Symbol("Times"), <<Symbol("b"), Function(Symbol("D"), <<Symbol("a"), Symbol("x")>>), Function(Symbol("Power"), <<Symbol("a"), Integer(-1)>>)>>), Function(Symbol("Times"), <<Function(Symbol("D"), <<Symbol("b"), Symbol("x")>>), Function(Symbol("Log"), <<Symbol("a")>>)>>)>>)>>), <<>>),
    SubstitutionRule(Function(Symbol("D"), <<Function(Symbol("Times"), <<BoundPattern("a", Blank(None)), BoundPattern("b", Blank(None))>>), BoundPattern("x", Blank(Symbol("Symbol")))>>), Function(Symbol("Plus"), <<Function(Symbol("Times"), <<Function(Symbol("D"), <<Symbol("a"), Symbol("x")>>), Symbol("b")>>), Function(Symbol("Times"), <<Function(Symbol("D"), <<Symbol("b"), Symbol("x")>>), Symbol("a")>>)>>), <<>>),
    SubstitutionRule(Function(Symbol("D"), <<Function(Symbol("Plus"), <<BoundPattern("a", Blank(None)), BoundPattern("b", Blank(None))>>), BoundPattern("x", Blank(Symbol("Symbol")))>>), Function(Symbol("Plus"), <<Function(Symbol("D"), <<Symbol("a"), Symbol("x")>>), Function(Symbol("D"), <<Symbol("b"), Symbol("x")>>)>>), <<>>),
    SubstitutionRule(Function(Symbol("D"), <<BoundPattern("y", Blank(None)), BoundPattern("x", Blank(Symbol("Symbol")))>>), Integer(0), <<Function(Symbol("ConstantQ"), <<Symbol("y")>>)>>),
    SubstitutionRule(Function(Symbol("D"), <<BoundPattern("x", Blank(None)), BoundPattern("x", Blank(Symbol("Symbol")))>>), Integer(1), <<>>),
    SubstitutionRule(Function(Symbol("D"), <<BoundPattern("y", Blank(Symbol("Symbol"))), BoundPattern("x", Blank(Symbol("Symbol")))>>), Integer(0), <<>>),
    SubstitutionRule(Function(Symbol("D"), <<Function(Symbol("Cos"), <<BoundPattern("y", Blank(None))>>), BoundPattern("x", Blank(Symbol("Symbol")))>>), Function(Symbol("Times"), <<Integer(-1), Function(Symbol("Sin"), <<Symbol("y")>>), Function(Symbol("D"), <<Symbol("y"), Symbol("x")>>)>>), <<>>),
    SubstitutionRule(Function(Symbol("D"), <<Function(Symbol("Log"), <<BoundPattern("y", Blank(None))>>), BoundPattern("x", Blank(Symbol("Symbol")))>>), Function(Symbol("Times"), <<Function(Symbol("Power"), <<Symbol("y"), Integer(-1)>>), Function(Symbol("D"), <<Symbol("y"), Symbol("x")>>)>>), <<>>),
    SubstitutionRule(Function(Symbol("D"), <<Function(BoundPattern("f", Blank(None)), <<BoundPattern("y", Blank(None))>>), BoundPattern("x", Blank(Symbol("Symbol")))>>), Function(Symbol("Times"), <<Function(Function(Function(Symbol("Derivative"), <<Integer(1)>>), <<Symbol("f")>>), <<Symbol("y")>>), Function(Symbol("D"), <<Symbol("y"), Symbol("x")>>)>>), <<>>),
    SubstitutionRule(Function(Function(Symbol("Derivative"), <<Integer(1)>>), <<Symbol("Exp")>>), Symbol("Exp"), <<>>),
    SubstitutionRule(Function(Function(Symbol("Derivative"), <<Integer(1)>>), <<Symbol("Sin")>>), Symbol("Cos"), <<>>),
    SubstitutionRule(Function(Function(Function(Symbol("Derivative"), <<Integer(1)>>), <<Symbol("Cos")>>), <<BoundPattern("y", Blank(None))>>), Function(Symbol("Times"), <<Integer(-1), Function(Symbol("Sin"), <<Symbol("y")>>)>>), <<>>),
    SubstitutionRule(Function(Function(Function(Symbol("Derivative"), <<Integer(1)>>), <<Symbol("Log")>>), <<BoundPattern("y", Blank(None))>>), Function(Symbol("Power"), <<Symbol("y"), Integer(-1)>>), <<>>),
    SubstitutionRule(Function(Function(Function(Symbol("Derivative"), <<Integer(1)>>), <<Symbol("Log2")>>), <<BoundPattern("y", Blank(None))>>), Function(Symbol("Power"), <<Function(Symbol("Times"), <<Function(Symbol("Log"), <<Integer(2)>>), Symbol("y")>>), Integer(-1)>>), <<>>),
    SubstitutionRule(Function(Function(Function(Symbol("Derivative"), <<Integer(1)>>), <<Symbol("Log10")>>), <<BoundPattern("y", Blank(None))>>), Function(Symbol("Power"), <<Function(Symbol("Times"), <<Function(Symbol("Log"), <<Integer(10)>>), Symbol("y")>>), Integer(-1)>>), <<>>),
    SubstitutionRule(Function(Symbol("Times"), <<BoundPattern("a", Blank(None)), Function(Symbol("Power"), <<BoundPattern("a", Blank(None)), BoundPattern("b", Blank(Symbol("Integer")))>>)>>), Function(Symbol("Power"), <<Symbol("a"), Function(Symbol("Plus"), <<Symbol("b"), Integer(1)>>)>>), <<>>),
    SubstitutionRule(Function(Symbol("Times"), <<Function(Symbol("Power"), <<BoundPattern("a", Blank(None)), BoundPattern("b", Blank(None))>>), Function(Symbol("Power"), <<BoundPattern("a", Blank(None)), BoundPattern("c", Blank(None))>>)>>), Function(Symbol("Power"), <<Symbol("a"), Function(Symbol("Plus"), <<Symbol("b"), Symbol("c")>>)>>), <<>>),
    SubstitutionRule(Function(Symbol("Times"), <<BoundPattern("z", Blank(None)), BoundPattern("a", Blank(None)), Function(Symbol("Power"), <<BoundPattern("a", Blank(None)), BoundPattern("b", Blank(Symbol("Integer")))>>)>>), Function(Symbol("Times"), <<Function(Symbol("Power"), <<Symbol("a"), Function(Symbol("Plus"), <<Symbol("b"), Integer(1)>>)>>), Symbol("z")>>), <<>>),
    SubstitutionRule(Function(Symbol("Times"), <<BoundPattern("z", Blank(None)), Function(Symbol("Power"), <<BoundPattern("a", Blank(None)), BoundPattern("b", Blank(None))>>), Function(Symbol("Power"), <<BoundPattern("a", Blank(None)), BoundPattern("c", Blank(None))>>)>>), Function(Symbol("Times"), <<Function(Symbol("Power"), <<Symbol("a"), Function(Symbol("Plus"), <<Symbol("b"), Symbol("c")>>)>>), Symbol("z")>>), <<>>),
    SubstitutionRule(Function(Symbol("Power"), <<BoundPattern("a", Blank(None)), Integer(1)>>), Symbol("a"), <<>>),
    SubstitutionRule(Function(Symbol("Power"), <<Blank(None), Integer(0)>>), Integer(1), <<>>),
    SubstitutionRule(Function(Symbol("Power"), <<Integer(1), Blank(None)>>), Integer(1), <<>>),
    SubstitutionRule(Function(Symbol("Power"), <<Function(Symbol("Times"), <<BoundPattern("a", Blank(None)), BoundPattern("b", Blank(None))>>), BoundPattern("c", Blank(Symbol("Integer")))>>), Function(Symbol("Times"), <<Function(Symbol("Power"), <<Symbol("a"), Symbol("c")>>), Function(Symbol("Power"), <<Symbol("b"), Symbol("c")>>)>>), <<>>),
    SubstitutionRule(Function(Symbol("Power"), <<Function(Symbol("Power"), <<BoundPattern("a", Blank(None)), BoundPattern("b", Blank(None))>>), BoundPattern("c", Blank(Symbol("Integer")))>>), Function(Symbol("Power"), <<Symbol("a"), Function(Symbol("Times"), <<Symbol("b"), Symbol("c")>>)>>), <<>>),
    SubstitutionRule(Function(Symbol("And"), <<Symbol("True"), BoundPattern("a", Blank(None))>>), Symbol("a"), <<>>),
    SubstitutionRule(Function(Symbol("And"), <<Symbol("False"), Blank(None)>>), Symbol("False"), <<>>),
    SubstitutionRule(Function(Symbol("And"), <<BoundPattern("a", Blank(None)), Function(Symbol("Not"), <<BoundPattern("a", Blank(None))>>)>>), Symbol("False"), <<>>),
    SubstitutionRule(Function(Symbol("And"), <<BoundPattern("a", Blank(None)), BoundPattern("a", Blank(None))>>), Symbol("a"), <<>>),
    SubstitutionRule(Function(Symbol("Not"), <<Symbol("True")>>), Symbol("False"), <<>>),
    SubstitutionRule(Function(Symbol("Not"), <<Symbol("False")>>), Symbol("True"), <<>>),
    SubstitutionRule(Function(Symbol("Not"), <<Function(Symbol("Not"), <<BoundPattern("a", Blank(None))>>)>>), Symbol("a"), <<>>),
    SubstitutionRule(Function(Symbol("Or"), <<Symbol("True"), BoundPattern("a", Blank(None))>>), Symbol("True"), <<>>),
    SubstitutionRule(Function(Symbol("Or"), <<Symbol("False"), BoundPattern("a", Blank(None))>>), Symbol("a"), <<>>),
    SubstitutionRule(Function(Symbol("Or"), <<BoundPattern("a", Blank(None)), Function(Symbol("Not"), <<BoundPattern("a", Blank(None))>>)>>), Symbol("True"), <<>>),
    SubstitutionRule(Function(Symbol("Or"), <<BoundPattern("a", Blank(None)), BoundPattern("a", Blank(None))>>), Symbol("a"), <<>>),
    SubstitutionRule(Function(Symbol("Or"), <<BoundPattern("a", Blank(None)), Function(Symbol("And"), <<BoundPattern("a", Blank(None)), BoundPattern("b", Blank(None))>>), BoundPattern("c", Blank(None))>>), Function(Symbol("Or"), <<Symbol("a"), Symbol("c")>>), <<>>),
    SubstitutionRule(Function(Symbol("Or"), <<BoundPattern("a", Blank(None)), Function(Symbol("And"), <<Function(Symbol("Not"), <<BoundPattern("a", Blank(None))>>), BoundPattern("b", Blank(None))>>), BoundPattern("c", Blank(None))>>), Function(Symbol("Or"), <<Symbol("a"), Symbol("b"), Symbol("c")>>), <<>>),
    SubstitutionRule(Function(Symbol("Implies"), <<BoundPattern("a", Blank(None)), BoundPattern("b", Blank(None))>>), Function(Symbol("Or"), <<Function(Symbol("Not"), <<Symbol("a")>>), Symbol("b")>>), <<>>),
    SubstitutionRule(Function(Symbol("Equivalent"), <<BoundPattern("a", Blank(None)), BoundPattern("b", Blank(None))>>), Function(Symbol("And"), <<Function(Symbol("Implies"), <<Symbol("a"), Symbol("b")>>), Function(Symbol("Implies"), <<Symbol("b"), Symbol("a")>>)>>), <<>>),
    SubstitutionRule(Function(Symbol("Log"), <<Symbol("E")>>), Integer(1), <<>>),
    SubstitutionRule(Function(Symbol("Exp"), <<BoundPattern("a", Blank(None))>>), Function(Symbol("Power"), <<Symbol("E"), Symbol("a")>>), <<>>),
    SubstitutionRule(Function(Symbol("Power"), <<Symbol("E"), Function(Symbol("Log"), <<BoundPattern("a", Blank(None))>>)>>), Symbol("a"), <<>>),
    SubstitutionRule(Function(Symbol("Sin"), <<Function(Symbol("Times"), <<Blank(Symbol("Integer")), Symbol("Pi")>>)>>), Integer(0), <<>>),
    SubstitutionRule(Function(Symbol("Sin"), <<Symbol("Pi")>>), Integer(0), <<>>),
    SubstitutionRule(Function(Symbol("Sqrt"), <<BoundPattern("a", Blank(None))>>), Function(Symbol("Power"), <<Symbol("a"), Rational(Integer(1), Integer(2))>>), <<>>)
>>

-----------------------------------------------------------------------------
(* The kernel as a state machine.  A call of Kernel.evaluate is a frame of *)
(* the call stack; the steps of a frame are the applications of one rule   *)
(* (the matcher is run inside the step), the return of a guard's           *)
(* evaluation into the rule being applied, the end of the rule loop, and   *)
(* the returns of the evaluations of the head and the arguments.  No       *)
(* exception is caught anywhere in the program: a raise ends the call with *)
(* the exception as its outcome.                                           *)
(*   rules   kernel.rules                                                  *)
(*   stack   the frames of the evaluate calls in progress, outermost first *)
(*   ret     the value being returned to the frame on top of the stack, or *)
(*           the outcome of the whole call when the stack is empty         *)
(*   input   the argument of the outermost evaluate call                   *)
(*   obs     what the rule application that finished last did              *)
(*   call    the last operation of the number classes and its result       *)

\* Number of rules registered through add_rule.
MaxRules == 2

\* Depth of nested evaluate calls at which the interpreter raises
\* RecursionError.
MaxDepth == 8

\* Number of nested steps the functions Apply and Evaluate follow.
MaxFuel == 12

\* A frame of Kernel.evaluate.  pc is the place of the call:
\*   "rules"    in the while loop, about to apply rule ri to expr
\*   "guard"    rule ri is waiting for the evaluation of its guard gi under
\*              the bindings of the match ms[1]
\*   "subterms" waiting for the evaluation of the head or of an argument;
\*              acc holds the evaluated ones
\*   "tail"     waiting for the call self.evaluate(expression) of line 88
NewFrame(expression) ==
    [pc |-> "rules", old |-> expression, expr |-> expression, ri |-> 1,
     ms |-> <<>>, gi |-> 0, ok |-> TRUE, gvals |-> <<>>, tried |-> 0,
     acc |-> <<>>]

Top == stack[Len(stack)]
Below == SubSeq(stack, 1, Len(stack) - 1)

\* self.rules of the Kernel whose evaluate call is on top of the stack.
\* Both apply methods evaluate a guard with kernel.evaluate: the module's
\* kernel runs the call made for a guard and every call inside it, with the
\* list rules.  The other calls are those of the Kernel evaluate was called
\* on: the module's kernel, or a second instance with a list of its own.
self_rules ==
    IF call.op = "Kernel.evaluate" /\ \A k \in 1..(Len(stack) - 1) : stack[k].pc # "guard"
    THEN call.x[2]
    ELSE rules

NoObs ==
    [rule |-> 0, result |-> "none", expression |-> None, tried |-> 0,
     bindings |-> {}, gvals |-> <<>>, new |-> None]

\* What rule f.ri did on f.expr: its result ("changed", "unchanged" or
\* "raised"), the number of matches it pulled, and for the last of them
\* the bindings and the values its guards evaluated to.
Observe(f, result, tried, bindings, gvals, new) ==
    [rule |-> f.ri, result |-> result, expression |-> f.expr, tried |-> tried,
     bindings |-> bindings, gvals |-> gvals, new |-> new]

Config(s, r, o) == [stack |-> s, ret |-> r, obs |-> o]

\* An exception leaves every frame.
Raise(error, o) == Config(<<>>, error, o)

\* A call of evaluate from the frames s.
CallEvaluate(s, expression, o) ==
    IF Len(s) >= MaxDepth THEN Raise(Error("RecursionError"), o)
    ELSE Config(Append(s, NewFrame(expression)), None, o)

\* A loop that would go on with the following rule after a rewrite.
AfterChangeVariant(ri) == ri + 1

\* The rule tried after one that reported a change: the for loop is left
\* and the while loop starts it again.
AfterChange(ri) == 1

\* The rule returns (True, new), new being the rewrite it computed, unless
\* computing it raised.
Fired(below, f, bindings, tried, gvals, new) ==
    IF IsError(new)
    THEN Raise(new, Observe(f, "raised", tried, bindings, gvals, None))
    ELSE Config(Append(below, [NewFrame(new) EXCEPT !.old = f.old, !.ri = AfterChange(f.ri)]),
                None, Observe(f, "changed", tried, bindings, gvals, new))

FireRule(below, f, bindings, tried, gvals) ==
    Fired(below, f, bindings, tried, gvals, Rewrite(self_rules[f.ri], bindings))

\* The for loop over the matches of rule f.ri on f.expr, ms being the
\* matches not pulled yet and tried the number of those pulled; bindings and
\* gvals are those of the last match pulled.
ApplyFrom(below, f, ms, tried, bindings, gvals) ==
    LET rule == self_rules[f.ri]
    IN IF ms = <<>>
       THEN \* return False, expression
            Config(Append(below, [NewFrame(f.expr) EXCEPT !.old = f.old, !.ri = f.ri + 1]),
                   None, Observe(f, "unchanged", tried, bindings, gvals, None))
       ELSE IF IsError(ms[1])
       THEN Raise(ms[1], Observe(f, "raised", tried, bindings, gvals, None))
       ELSE IF rule.guards = <<>>
       THEN FireRule(below, f, ms[1][2], tried + 1, <<>>)
       ELSE LET guard == substitute(rule.guards[1], ms[1][2])
                waiting == [f EXCEPT !.pc = "guard", !.ms = ms, !.gi = 1, !.ok = TRUE,
                                     !.gvals = <<>>, !.tried = tried + 1]
            IN IF IsError(guard)
               THEN Raise(guard, Observe(f, "raised", tried + 1, ms[1][2], <<>>, None))
               ELSE CallEvaluate(Append(below, waiting), guard, obs)

\* A frame ends with the value expression: by the call of line 88 when it
\* differs from the expression the frame was called with.
Finish(below, f, expression) ==
    IF ~Eq(f.old, expression)
    THEN CallEvaluate(Append(below, [f EXCEPT !.pc = "tail", !.expr = expression]),
                      expression, obs)
    ELSE Config(below, expression, obs)

\* The step to the configuration next.
Becomes(next) ==
    /\ stack' = next.stack
    /\ ret' = next.ret
    /\ obs' = next.obs

Idle == stack = <<>> /\ ret = None
Done == stack = <<>> /\ ret # None


\* Rules a client registers, by the position they have in this list:
\*   1  f[a] -> f[b]                   5  f[x_] -> Plus[x, c]
\*   2  b -> a                         6  Plus[x_, y_] -> x  /; Q[x]
\*   3  a -> b                         7  Plus[x_, y_] :> b['x']  /; Q[x], True
\*   4  a -> c                         8  Q[b] -> True
\*   9  Complex[1, 2] -> a
UserRules == <<
    SubstitutionRule(F("f", <<Symbol("a")>>), F("f", <<Symbol("b")>>), <<>>),
    SubstitutionRule(Symbol("b"), Symbol("a"), <<>>),
    SubstitutionRule(Symbol("a"), Symbol("b"), <<>>),
    SubstitutionRule(Symbol("a"), Symbol("c"), <<>>),
    SubstitutionRule(F("f", <<BoundPattern("x", Blank(None))>>),
                     F("Plus", <<Symbol("x"), Symbol("c")>>), <<>>),
    SubstitutionRule(F("Plus", <<BoundPattern("x", Blank(None)), BoundPattern("y", Blank(None))>>),
                     Symbol("x"), <<F("Q", <<Symbol("x")>>)>>),
    LambdaRule(F("Plus", <<BoundPattern("x", Blank(None)), BoundPattern("y", Blank(None))>>),
               "GetX", <<F("Q", <<Symbol("x")>>), SymTrue>>),
    SubstitutionRule(F("Q", <<Symbol("b")>>), SymTrue, <<>>),
    SubstitutionRule(Complex(Integer(1), Integer(2)), Symbol("a"), <<>>) >>

\* Expressions a client evaluates.
Inputs == {
    Symbol("a"),
    F("f", <<Symbol("a")>>),
    F("Plus", <<Symbol("b"), Symbol("a")>>),
    F("Plus", <<F("f", <<Symbol("a")>>), Symbol("c")>>),
    F("f", <<F("Plus", <<Symbol("a"), Symbol("b")>>)>>),
    Complex(Integer(1), Integer(3)) }

\* No operation of the number classes has been made.
NoCall == [op |-> "none", x |-> None, y |-> None, result |-> None, n |-> 0]

Init ==
    /\ rules = <<>>
    /\ stack = <<>>
    /\ ret = None
    /\ input = None
    /\ obs = NoObs
    /\ call = NoCall

\* kernel.add_rule(rule)
add_rule ==
    /\ Idle /\ input = None
    /\ Len(rules) < MaxRules
    /\ \E i \in 1..Len(UserRules) : rules' = Append(rules, UserRules[i])
    /\ UNCHANGED <<stack, ret, input, obs, call>>

\* kernel.evaluate(e) is called for one of the expressions
EvaluateOneOf(expressions) ==
    /\ Idle /\ input = None
    /\ \E e \in expressions :
        /\ input' = e
        /\ stack' = <<NewFrame(e)>>
    /\ UNCHANGED <<rules, ret, obs, call>>

evaluate == EvaluateOneOf(Inputs)

\* c, expression = rule.apply(expression) for rule ri of the frame on top:
\* the pattern is matched and the rule fires, reports no change, raises, or
\* calls the kernel for its first guard.
apply ==
    /\ stack # <<>> /\ ret = None
    /\ Top.pc = "rules" /\ Top.ri <= Len(self_rules)
    /\ Becomes(ApplyFrom(Below, Top, match(self_rules[Top.ri].pattern, Top.expr, EmptyBindings),
                          0, {}, <<>>))
    /\ UNCHANGED <<rules, input, call>>

\* The evaluation of guard gi returns into the rule: a SubstitutionRule
\* gives up at a guard that is not True, a LambdaRule evaluates every guard
\* and goes on to its next match when one of them was not True.
guard_return ==
    /\ stack # <<>> /\ ret # None
    /\ Top.pc = "guard"
    /\ LET f == Top
           rule == self_rules[f.ri]
           bindings == f.ms[1][2]
           gvals == Append(f.gvals, ret)
           ok == f.ok /\ GuardHolds(ret)
           guard == substitute(rule.guards[f.gi + 1], bindings)
           waiting == [f EXCEPT !.gi = f.gi + 1, !.ok = ok, !.gvals = gvals]
       IN Becomes(IF f.gi < Len(rule.guards) /\ (GuardHolds(ret) \/ rule.kind = "LambdaRule")
                  THEN IF IsError(guard)
                       THEN Raise(guard, Observe(f, "raised", f.tried, bindings, gvals, None))
                       ELSE CallEvaluate(Append(Below, waiting), guard, obs)
                  ELSE IF ok
                  THEN FireRule(Below, f, bindings, f.tried, gvals)
                  ELSE ApplyFrom(Below, f, MatchesAfterGuardFailure(rule, f.ms),
                                 f.tried, bindings, gvals))
    /\ UNCHANGED <<rules, input, call>>

\* A pass over the rules ended without a change: the head and the arguments
\* of a Function are evaluated next, anything else is the frame's value.
loop_exit ==
    /\ stack # <<>> /\ ret = None
    /\ Top.pc = "rules" /\ Top.ri > Len(self_rules)
    /\ LET f == Top
           waiting == [f EXCEPT !.pc = "subterms", !.acc = <<>>]
       IN Becomes(IF IsFunction(f.expr)
                  THEN CallEvaluate(Append(Below, waiting), f.expr[2], obs)
                  ELSE Finish(Below, f, f.expr))
    /\ UNCHANGED <<rules, input, call>>

\* An order that would take the arguments from right to left.
SubtermsVariant(expression) ==
    <<expression[2]>> \o [i \in 1..Len(expression[3]) |->
                              expression[3][Len(expression[3]) + 1 - i]]

\* The subterms of a Function in the order lines 78-84 evaluate them: the
\* head, then the arguments as the argument sequence lists them.
Subterms(expression) == <<expression[2]>> \o expression[3]

\* The evaluation of the head or of an argument returns: the next argument
\* is evaluated, or the Function is built again from the evaluated parts.
subterm_return ==
    /\ stack # <<>> /\ ret # None
    /\ Top.pc = "subterms"
    /\ LET f == Top
           acc == Append(f.acc, ret)
           subterms == Subterms(f.expr)
       IN Becomes(IF Len(acc) < Len(subterms)
                  THEN CallEvaluate(Append(Below, [f EXCEPT !.acc = acc]),
                                    subterms[Len(acc) + 1], obs)
                  ELSE Finish(Below, f, Function(acc[1], Tail(acc))))
    /\ UNCHANGED <<rules, input, call>>

\* return self.evaluate(expression)
tail_return ==
    /\ stack # <<>> /\ ret # None
    /\ Top.pc = "tail"
    /\ stack' = Below
    /\ UNCHANGED <<rules, ret, input, obs, call>>

Next ==
    \/ add_rule
    \/ evaluate
    \/ apply
    \/ guard_return
    \/ loop_exit
    \/ subterm_return
    \/ tail_return

Spec == Init /\ [][Next]_vars

\* The interpreter keeps running a call in progress: each of its steps is
\* taken once it is possible.  A call in progress has exactly one step
\* possible; for apply the condition is written out (ApplyEnabled is
\* ENABLED <<apply>>_vars: an application always moves the frame on top or
\* ends the call).  A client need not ever call add_rule or evaluate.
ApplyEnabled == stack # <<>> /\ ret = None /\ Top.pc = "rules" /\ Top.ri <= Len(self_rules)

Returns == guard_return \/ loop_exit \/ subterm_return \/ tail_return

FairSpec ==
    /\ Spec
    /\ WF_vars(Returns)
    /\ ([]<>~ApplyEnabled) \/ ([]<><<apply>>_vars)

-----------------------------------------------------------------------------
(* The kernel with the shipped rule pack: main.py imports initialize_rules, *)
(* which registers the pack on the kernel, and evaluates an expression.    *)

\* Length of the argument lists of the sums evaluated.
MaxArgs == 3

\* The Integers of the expressions evaluated are those of -1..MaxInt.
MaxInt == 2

RECURSIVE IntegerLists(_)
IntegerLists(k) ==
    IF k = 0 THEN {<<>>}
    ELSE {Append(l, Integer(i)) : l \in IntegerLists(k - 1), i \in -1..MaxInt}

\* f[Plus[2, 2]] for f = Symbol('f', [Attribute.Hold]), and g[Plus[2, 2]]
HoldInputs == {
    Function(SymbolA("f", {Hold}), <<F("Plus", <<Integer(2), Integer(2)>>)>>),
    F("g", <<F("Plus", <<Integer(2), Integer(2)>>)>>) }

\* exp of main.py: D[Sin[Exp[Plus[1, a]]], a]
MainInput ==
    F("D", <<F("Sin", <<F("Exp", <<F("Plus", <<Integer(1), Symbol("a")>>)>>)>>), Symbol("a")>>)

\* Plus[i1, ..., ik] for 2 <= k <= MaxArgs, Plus[2, 3], Power[i, j], the
\* two calls with and without Hold, and the expression of main.py
PackInputs ==
    {F("Plus", l) : l \in UNION {IntegerLists(k) : k \in 2..MaxArgs}}
        \cup {F("Plus", <<Integer(2), Integer(3)>>)}
        \cup {F("Power", l) : l \in IntegerLists(2)}
        \cup HoldInputs
        \cup {MainInput}

PackInit ==
    /\ rules = initialize_rules
    /\ stack = <<>>
    /\ ret = None
    /\ input = None
    /\ obs = NoObs
    /\ call = NoCall

main == EvaluateOneOf(PackInputs)

PackNext ==
    \/ main
    \/ apply
    \/ guard_return
    \/ loop_exit
    \/ subterm_return
    \/ tail_return

PackSpec == PackInit /\ [][PackNext]_vars

-----------------------------------------------------------------------------
(* Properties of the kernel.                                               *)

\* The items of a sequence.
Range(s) == {s[i] : i \in 1..Len(s)}

\* The expression itself, its head and its arguments.
Parts(e) == IF IsFunction(e) THEN <<e, e[2]>> \o e[3] ELSE <<e>>

\* The expression and every expression inside it.
RECURSIVE Subexpressions(_)
Subexpressions(e) ==
    IF IsFunction(e)
    THEN {e} \cup Subexpressions(e[2])
             \cup UNION {Subexpressions(e[3][i]) : i \in 1..Len(e[3])}
    ELSE {e}

\* Rule i of the kernel reports changed on e / reports unchanged on e.
ReportsChanged(i, e) == Apply(rules[i], e, rules, MaxFuel)[1] = "changed"
ReportsUnchanged(i, e) == Apply(rules[i], e, rules, MaxFuel)[1] = "unchanged"

\* C1: whenever evaluate returns an expression r, no registered rule
\* reports changed on r, on its head or on one of its arguments.
C1_FixedPoint ==
    (Done /\ ~IsError(ret)) =>
        \A i \in 1..Len(rules) : \A k \in 1..Len(Parts(ret)) :
            ~ReportsChanged(i, Parts(ret)[k])

\* With f[a] -> f[b] and b -> a registered, evaluate(f[a]) has returned f[a].
C1_Returned ==
    /\ Done
    /\ rules = <<UserRules[1], UserRules[2]>>
    /\ input = F("f", <<Symbol("a")>>)
    /\ ret = F("f", <<Symbol("a")>>)
    /\ ReportsChanged(1, ret)

\* C2: every call of evaluate terminates: it returns or, at worst, raises.
C2_Terminates == (input # None) ~> Done

\* With a -> b and b -> a registered, the rule loop of evaluate(a) is back
\* at the expression a after two rewrites.
C2_Cycle ==
    /\ rules = <<UserRules[3], UserRules[2]>>
    /\ input = Symbol("a")
    /\ Len(stack) = 1
    /\ obs.result = "changed" /\ obs.rule = 2
    /\ Top.expr = Symbol("a") /\ Top.ri = 1

\* C3: a rule is applied to an expression only when every rule registered
\* before it has reported unchanged on that expression (so the rewrite taken
\* is that of the first rule reporting changed), and once a rule has
\* reported changed the rule tried next is the first one.
C3_RuleOrder ==
    /\ \A d \in 1..Len(stack) :
          stack[d].pc \in {"rules", "guard", "subterms"} =>
              \A j \in 1..(stack[d].ri - 1) : ReportsUnchanged(j, stack[d].expr)
    /\ (stack # <<>> /\ Top.pc = "rules" /\ Top.ri > 1) =>
          /\ obs.result = "unchanged"
          /\ obs.rule = Top.ri - 1
          /\ obs.expression = Top.expr
    /\ (stack # <<>> /\ Top.pc = "rules" /\ obs.result = "changed") => Top.ri = 1

\* The second rule has rewritten an expression the first one left alone,
\* and the first rule is the one tried next.
C3_SecondRuleFired ==
    /\ obs.result = "changed" /\ obs.rule = 2
    /\ stack # <<>> /\ Top.pc = "rules" /\ Top.ri = 1
    /\ Top.expr = obs.new
    /\ ReportsUnchanged(1, obs.expression)

\* C4: a rule reports changed only under the bindings of a match of its
\* pattern for which each of its guards, substituted with those bindings,
\* was evaluated by the kernel to True; a rule without guards reports
\* unchanged only when its pattern has no match.
C4_GuardsTrue ==
    /\ obs.result = "changed" =>
          LET rule == rules[obs.rule]
          IN /\ Match(obs.bindings) \in Range(match(rule.pattern, obs.expression, EmptyBindings))
             /\ Len(obs.gvals) = Len(rule.guards)
             /\ \A i \in 1..Len(rule.guards) :
                   /\ Eq(obs.gvals[i], SymTrue)
                   /\ Evaluate(substitute(rule.guards[i], obs.bindings), rules, MaxFuel)
                          = obs.gvals[i]
    /\ (obs.result = "unchanged" /\ rules[obs.rule].guards = <<>>) =>
          match(rules[obs.rule].pattern, obs.expression, EmptyBindings) = <<>>

\* A rule with guards has fired.
C4_GuardedRuleFired ==
    /\ obs.result = "changed"
    /\ rules[obs.rule].guards # <<>>

\* C5 as stated: neither rule kind pulls a second match of its pattern.
C5_FirstMatchOnly ==
    obs.result \in {"changed", "unchanged"} => obs.tried <= 1

\* C5: a SubstitutionRule pulls at most one match of its pattern, and
\* reports unchanged when a guard is not True under it; a LambdaRule pulls
\* the matches in order, fires under the first one whose guards are all
\* True, and reports unchanged only when it has pulled every match.
C5_MatchesTried ==
    obs.result \in {"changed", "unchanged"} =>
        LET rule == rules[obs.rule]
            ms == match(rule.pattern, obs.expression, EmptyBindings)
            failed(m) == GuardsOf(rule, ms[m][2], 1, TRUE, rules, MaxFuel) = <<"fail">>
        IN /\ obs.tried <= Len(ms)
           /\ rule.kind = "SubstitutionRule" => obs.tried <= 1
           /\ obs.result = "changed" =>
                 /\ obs.tried >= 1
                 /\ obs.bindings = ms[obs.tried][2]
                 /\ \A m \in 1..(obs.tried - 1) : failed(m)
           /\ (obs.result = "unchanged" /\ rule.kind = "LambdaRule") =>
                 /\ obs.tried = Len(ms)
                 /\ \A m \in 1..Len(ms) : failed(m)
           /\ (obs.result = "unchanged" /\ rule.kind = "SubstitutionRule" /\ ms # <<>>) =>
                 /\ obs.tried = 1
                 /\ failed(1)

\* A LambdaRule has fired under the second match of its pattern.
C5_LambdaSecondMatch ==
    /\ obs.result = "changed"
    /\ rules[obs.rule].kind = "LambdaRule"
    /\ obs.tried = 2

\* No item of the match sequence of pattern against e is a match.
NoMatch(pattern, e) ==
    \A m \in 1..Len(match(pattern, e, EmptyBindings)) :
        IsError(match(pattern, e, EmptyBindings)[m])

\* C6: when no registered pattern matches the expression or an expression
\* inside it, evaluate returns, without raising, an expression equal to it.
C6_NoMatchNoChange ==
    (Done /\ \A i \in 1..Len(rules) : \A t \in Subexpressions(input) : NoMatch(rules[i].pattern, t))
        => (~IsError(ret) /\ Eq(ret, input))

\* With Complex[1, 2] -> a registered, evaluate(Complex[1, 3]) has raised.
C6_Raised ==
    /\ Done
    /\ rules = <<UserRules[9]>>
    /\ input = Complex(Integer(1), Integer(3))
    /\ ret = Error("AttributeError")

\* No Function inside e that has the attribute Flat has a direct argument
\* that is a Function with the same head.
RECURSIVE Flattened(_)
Flattened(e) ==
    IsFunction(e) =>
        /\ Flat \in Attributes(e) =>
              \A i \in 1..Len(e[3]) : ~(IsFunction(e[3][i]) /\ Eq(e[3][i][2], e[2]))
        /\ Flattened(e[2])
        /\ \A i \in 1..Len(e[3]) : Flattened(e[3][i])

FlattenedBindings(bindings) == \A p \in bindings : Flattened(p[2])

RECURSIVE SumOf(_)
SumOf(integers) ==
    IF integers = <<>> THEN 0 ELSE Head(integers)[2] + SumOf(Tail(integers))

\* C10: with the shipped rule pack, evaluate(Plus[i1, ..., ik]) of k >= 2
\* Integers returns the Integer i1 + ... + ik.
C10_PlusOfIntegers ==
    (Done /\ IsFunction(input) /\ Eq(input[2], Symbol("Plus")))
        => ret = Integer(SumOf(input[3]))

\* evaluate(Plus[2, 3]) has returned 5
C10_Sum ==
    /\ Done
    /\ input = F("Plus", <<Integer(2), Integer(3)>>)
    /\ ret = Integer(5)


-----------------------------------------------------------------------------
(* The number classes used on their own: a client constructs Rationals and *)
(* Complexes and combines numbers with +, -, * and /; call holds the last  *)
(* operation, its operands and its result (a number or the exception       *)
(* raised), and the number of operations made.                             *)

\* The Integers a Rational is constructed from are those of -MaxNum..MaxNum.
MaxNum == 4

\* Number of operations made one after the other, each one free to take the
\* result of the one before as an operand.
MaxOps == 2

\* Numbers the client starts from, as their constructors leave them:
\* 0, 2, -3, 0.5, Rational(1, 2), Complex(1, 2), Complex(0, 1.5).
BaseNumbers == <<
    Integer(0), Integer(2), Integer(-3),
    Real(PyFloat(1, 2)),
    <<"Rational", Integer(1), Integer(2)>>,
    ComplexParts(Integer(1), Integer(2)),
    ComplexParts(Integer(0), Real(PyFloat(3, 2))) >>

\* The operands of the next operation.
Operands == BaseNumbers \o (IF IsNumber(call.result) THEN <<call.result>> ELSE <<>>)

\* The operation op on x and y has given result.
Called(op, x, y, result) ==
    /\ call' = [op |-> op, x |-> x, y |-> y, result |-> result, n |-> call.n + 1]
    /\ UNCHANGED <<rules, stack, ret, input, obs>>

\* Rational(Integer(n), Integer(d))
RationalOfIntegers ==
    /\ call.n < MaxOps
    /\ \E n \in -MaxNum..MaxNum, d \in -MaxNum..MaxNum :
          Called("Rational", Integer(n), Integer(d), Rational(Integer(n), Integer(d)))

\* Complex(x, y)
ComplexOfNumbers ==
    /\ call.n < MaxOps
    /\ \E i \in 1..Len(Operands), j \in 1..Len(Operands) :
          Called("Complex", Operands[i], Operands[j], Complex(Operands[i], Operands[j]))

\* x + y
add ==
    /\ call.n < MaxOps
    /\ \E i \in 1..Len(Operands), j \in 1..Len(Operands) :
          Called("+", Operands[i], Operands[j], Add(Operands[i], Operands[j]))

\* x - y
sub ==
    /\ call.n < MaxOps
    /\ \E i \in 1..Len(Operands), j \in 1..Len(Operands) :
          Called("-", Operands[i], Operands[j], Sub(Operands[i], Operands[j]))

\* x * y
mul ==
    /\ call.n < MaxOps
    /\ \E i \in 1..Len(Operands), j \in 1..Len(Operands) :
          Called("*", Operands[i], Operands[j], Mul(Operands[i], Operands[j]))

\* x / y
truediv ==
    /\ call.n < MaxOps
    /\ \E i \in 1..Len(Operands), j \in 1..Len(Operands) :
          Called("/", Operands[i], Operands[j], Div(Operands[i], Operands[j]))

NumberNext ==
    \/ RationalOfIntegers
    \/ ComplexOfNumbers
    \/ add
    \/ sub
    \/ mul
    \/ truediv

NumberSpec == Init /\ [][NumberNext]_vars

\* n and d have no common divisor greater than 1
LowestTerms(n, d) == \A k \in 2..MaxNum : ~(n % k = 0 /\ d % k = 0)

\* C7: a Rational constructed from an Integer numerator and a non-zero
\* Integer denominator is in lowest terms and has a positive denominator.
C7_LowestTerms ==
    (call.op = "Rational" /\ call.y # Integer(0)) =>
        /\ IsRational(call.result)
        /\ IsInteger(call.result[2]) /\ IsInteger(call.result[3])
        /\ call.result[3][2] > 0
        /\ LowestTerms(Abs(call.result[2][2]), call.result[3][2])

\* Rational(Integer(0), Integer(-3)) has given Rational[0, -1].
C7_NegativeDenominator ==
    /\ call.op = "Rational"
    /\ call.x = Integer(0) /\ call.y = Integer(-3)
    /\ call.result = <<"Rational", Integer(0), Integer(-1)>>

\* C8: the real part and the imaginary part of a Complex that a
\* construction or an arithmetic operation has produced are not Complexes.
C8_PartsNotComplex ==
    IsComplex(call.result) =>
        ~IsComplex(call.result[2]) /\ ~IsComplex(call.result[3])

\* A Complex has been constructed from two Complexes, and an arithmetic
\* operation on a Complex has given a Complex.
C8_FromComplexes ==
    /\ IsComplex(call.result)
    /\ \/ call.op = "Complex" /\ IsComplex(call.x) /\ IsComplex(call.y)
       \/ call.op = "/" /\ IsComplex(call.x) /\ IsComplex(call.y)

-----------------------------------------------------------------------------
(* The expression classes used on their own: a client constructs           *)
(* Functions; call holds the head, the argument list given and the         *)
(* Function constructed.                                                   *)

\* Length of the argument lists a Function is constructed from.
MaxLen == 3

\* The heads: a Symbol of the default table, one that is not in it, and one
\* created with the attributes Flat and Orderless.
Heads == <<Symbol("Plus"), Symbol("f"), SymbolA("g", {Flat, Orderless})>>

\* The arguments: atoms of every class, Functions, a Rational and a
\* Function of the same textual form, nested Functions of the heads above.
Arguments == <<
    Integer(2), Real(PyFloat(1, 2)), Symbol("a"),
    F("Q", <<Symbol("a")>>),
    <<"Rational", Integer(1), Integer(2)>>,
    F("Rational", <<Integer(1), Integer(2)>>),
    F("Plus", <<Symbol("b"), Symbol("c")>>),
    Function(SymbolA("g", {Flat, Orderless}), <<Symbol("c"), Symbol("b")>>) >>

\* The lists of k arguments.
RECURSIVE ArgumentLists(_)
ArgumentLists(k) ==
    IF k = 0 THEN {<<>>}
    ELSE {Append(l, Arguments[i]) : l \in ArgumentLists(k - 1), i \in 1..Len(Arguments)}

\* Function(head, Sequence(arguments))
construct ==
    /\ call.n = 0
    /\ \E h \in 1..Len(Heads), k \in 1..MaxLen : \E l \in ArgumentLists(k) :
          call' = [op |-> "Function", x |-> Heads[h], y |-> l,
                   result |-> Function(Heads[h], l), n |-> 1]
    /\ UNCHANGED <<rules, stack, ret, input, obs>>

\* The place of a class in the order Integers, Reals, Symbols, Functions
\* (0 for the other classes).
TypeRank(e) ==
    CASE IsInteger(e) -> 1 [] IsReal(e) -> 2 [] IsSymbol(e) -> 3 [] IsFunction(e) -> 4
      [] OTHER -> 0

\* C11: the arguments of a constructed Function that is Orderless are held
\* grouped by class: Integers, then Reals, then Symbols, then Functions.
C11_TypeGrouped ==
    (call.op = "Function" /\ Orderless \in Attributes(call.result)) =>
        \A i \in 1..Len(call.result[3]) : \A j \in i..Len(call.result[3]) :
            (TypeRank(call.result[3][i]) > 0 /\ TypeRank(call.result[3][j]) > 0)
                => TypeRank(call.result[3][i]) <= TypeRank(call.result[3][j])

\* Plus constructed from 2 and 0.5 holds 0.5 before 2.
C11_RealBeforeInteger ==
    /\ call.op = "Function"
    /\ call.x = Symbol("Plus")
    /\ call.y = <<Integer(2), Real(PyFloat(1, 2))>>
    /\ call.result[3] = <<Real(PyFloat(1, 2)), Integer(2)>>

\* C12: a Function that is Orderless is structurally equal to the one
\* constructed with the same head from any permutation of its argument
\* list.
C12_OrderIrrelevant ==
    (call.op = "Function" /\ Orderless \in Attributes(call.result)) =>
        \A k \in 1..Len(permutations(call.y)) :
            Eq(Function(call.x, permutations(call.y)[k]), call.result)

\* Plus constructed from Rational(1, 2) and the Function Rational[1, 2]
\* holds them in the order given.
C12_OrderKept ==
    /\ call.op = "Function"
    /\ call.x = Symbol("Plus")
    /\ call.y = <<F("Rational", <<Integer(1), Integer(2)>>), <<"Rational", Integer(1), Integer(2)>> >>
    /\ call.result[3] = call.y
    /\ ~Eq(Function(call.x, <<call.y[2], call.y[1]>>), call.result)

\* C13: a constructed Function has the attributes of the default table when
\* its head is a Symbol named there and the attributes of its head
\* otherwise; with a head that is Flat it has no direct argument of that
\* head, with a head that is Orderless its arguments are sorted.
C13_HeadAttributes ==
    call.op = "Function" =>
        /\ Attributes(call.result) =
              (IF default_attributes(call.x[2]) # {} THEN default_attributes(call.x[2])
               ELSE Attributes(call.x))
        /\ Flat \in Attributes(call.x) =>
              \A i \in 1..Len(call.result[3]) :
                  ~(IsFunction(call.result[3][i]) /\ Eq(call.result[3][i][2], call.x))
        /\ Orderless \in Attributes(call.x) => call.result[3] = sort(call.result[3])

\* A Function whose head g was created Flat and Orderless has no attribute
\* and holds the arguments as given, a Function of head g among them.
C13_NotInherited ==
    /\ call.op = "Function"
    /\ call.x = SymbolA("g", {Flat, Orderless})
    /\ call.y = <<Symbol("a"), Function(SymbolA("g", {Flat, Orderless}), <<Symbol("c"), Symbol("b")>>)>>
    /\ Attributes(call.result) = {}
    /\ call.result[3] = call.y

-----------------------------------------------------------------------------
(* Calls of the matcher.                                                   *)

Patterns == <<
    BoundPattern("x", Blank(None)),
    BoundPattern("x", Blank(Symbol("Integer"))),
    BoundPattern("x", Integer(1)),
    BoundPattern("x", F("f", <<Integer(1)>>)),
    BoundPattern("x", F("f", <<BoundPattern("y", Blank(None))>>)),
    F("h", <<BoundPattern("a", Blank(None)), BoundPattern("a", Blank(None))>>),
    F("Plus", <<BoundPattern("a", Blank(None)), BoundPattern("a", Blank(None))>>),
    F("h", <<BoundPattern("x", F("f", <<BoundPattern("y", Blank(None))>>)),
             BoundPattern("y", Blank(None))>>),
    F("Plus", <<F("f", <<Integer(1)>>), BoundPattern("a", Blank(None))>>),
    Integer(1),
    Real(PyFloat(1, 2)),
    <<"Rational", Integer(1), Integer(2)>>,
    ComplexParts(Integer(1), Integer(2)),
    Symbol("x"),
    F("f", <<Integer(1)>>),
    F("Plus", <<F("f", <<Integer(1)>>), Symbol("x")>>) >>

Subjects == <<
    Integer(1), Integer(2), Real(PyFloat(1, 2)),
    <<"Rational", Integer(1), Integer(2)>>,
    <<"Rational", Integer(1), Integer(3)>>,
    ComplexParts(Integer(1), Integer(2)),
    ComplexParts(Integer(3), Integer(2)),
    Symbol("x"), Symbol("y"),
    F("f", <<Integer(1)>>), F("f", <<Integer(2)>>),
    F("h", <<Symbol("x"), Symbol("y")>>), F("h", <<Symbol("x"), Symbol("x")>>),
    F("h", <<F("f", <<Integer(1)>>), Integer(2)>>),
    F("Plus", <<Symbol("x"), Symbol("y")>>), F("Plus", <<Symbol("x"), Symbol("x")>>),
    F("Plus", <<F("f", <<Integer(1)>>), Symbol("x")>>),
    F("Plus", <<F("f", <<Integer(2)>>), Symbol("x")>>) >>

StartBindings == << EmptyBindings, bind(EmptyBindings, "x", Integer(1)) >>

\* it = pattern.match(expression, bindings); list(it): the matches yielded
\* and the object passed as bindings once match has returned.
match_pattern ==
    /\ call.n = 0
    /\ \E i \in 1..Len(Patterns), j \in 1..Len(Subjects), k \in 1..Len(StartBindings) :
          call' = [op |-> "match", x |-> Patterns[i],
                   y |-> [expression |-> Subjects[j], bindings |-> StartBindings[k]],
                   result |-> [matches |-> match(Patterns[i], Subjects[j], StartBindings[k]),
                               after |-> EagerBind(Patterns[i], Subjects[j], StartBindings[k])],
                   n |-> 1]
    /\ UNCHANGED <<rules, stack, ret, input, obs>>

\* The bindings of the Match items of a match iterator.
Yielded(ms) == {ms[i][2] : i \in {j \in 1..Len(ms) : ~IsError(ms[j])}}

\* name is bound in bindings, and to nothing but expression.
BoundTo(bindings, name, expression) ==
    /\ Contains(bindings, name)
    /\ \A q \in bindings : q[1] = name => Eq(q[2], expression)

\* C14: BoundPattern(N, B).match(e, bindings) with N not bound in bindings
\* yields a match exactly when B.match(e, bindings) yields one, and every
\* bindings it yields binds N to e.
C14_BoundIffBase ==
    (call.op = "match" /\ IsBoundPattern(call.x) /\ ~Contains(call.y.bindings, call.x[2])) =>
        /\ (Yielded(call.result.matches) # {})
              <=> (Yielded(match(call.x[3], call.y.expression, call.y.bindings)) # {})
        /\ \A b \in Yielded(call.result.matches) : BoundTo(b, call.x[2], call.y.expression)

\* BoundPattern("x", f[1]) matched f[2] although f[1] does not.
C14_BaseYieldsNothing ==
    /\ call.op = "match"
    /\ call.x = BoundPattern("x", F("f", <<Integer(1)>>))
    /\ call.y = [expression |-> F("f", <<Integer(2)>>), bindings |-> EmptyBindings]
    /\ call.result.matches = << Match(bind(EmptyBindings, "x", F("f", <<Integer(2)>>))) >>
    /\ match(call.x[3], call.y.expression, call.y.bindings) = <<>>

PatternLists == <<
    <<BoundPattern("a", Blank(None))>>,
    <<BoundPattern("a", Blank(None)), BoundPattern("a", Blank(None))>>,
    <<BoundPattern("a", Blank(None)), BoundPattern("b", Blank(None))>>,
    <<BoundPattern("a", Blank(None)), BoundPattern("b", Blank(None)),
      BoundPattern("a", Blank(None))>>,
    <<BoundPattern("x", F("f", <<BoundPattern("y", Blank(None))>>)),
      BoundPattern("y", Blank(None))>> >>

ExpressionLists == <<
    <<Symbol("x"), Symbol("y")>>,
    <<Symbol("x"), Symbol("x")>>,
    <<Symbol("x"), Symbol("y"), Symbol("x")>>,
    <<Symbol("x"), Symbol("x"), Symbol("y")>>,
    <<Symbol("x"), Symbol("y"), Symbol("z")>>,
    <<F("f", <<Integer(1)>>), Integer(2)>> >>

\* The object passed as bindings once the iterator of
\* Sequence.match(expression, bindings, orderless, flat, head) is exhausted.
RECURSIVE OrderlessFlatShared(_, _, _, _)
OrderlessFlatShared(expression_orderings, patterns, bindings, head) ==
    IF expression_orderings = <<>> THEN bindings
    ELSE OrderlessFlatShared(Tail(expression_orderings), patterns,
                             FlatShared(Head(expression_orderings), patterns, bindings, head),
                             head)

SequenceShared(patterns, expressions, bindings, orderless, flat, head) ==
    IF orderless /\ flat THEN
        IF Len(patterns) = 0 \/ Len(patterns) >= Len(expressions) THEN bindings
        ELSE LET r == eliminate_bound_patterns(expressions, patterns, bindings)
             IN IF ~r[1] THEN bindings
                ELSE OrderlessFlatShared(permutations(r[2]), r[3], bindings, head)
    ELSE IF flat THEN FlatShared(expressions, patterns, bindings, head)
    ELSE bindings

\* it = patterns.match(expressions, Bindings(), orderless, flat, head); list(it)
sequence_match ==
    /\ call.n = 0
    /\ \E i \in 1..Len(PatternLists), j \in 1..Len(ExpressionLists),
          orderless \in BOOLEAN, flat \in BOOLEAN, h \in {"Plus", "h"} :
          call' = [op |-> "Sequence.match", x |-> <<"Sequence", PatternLists[i]>>,
                   y |-> [expression |-> ExpressionLists[j], bindings |-> EmptyBindings,
                          orderless |-> orderless, flat |-> flat, head |-> Symbol(h)],
                   result |-> [matches |-> SequenceMatch(PatternLists[i], ExpressionLists[j],
                                                         EmptyBindings, orderless, flat, Symbol(h)),
                               after |-> SequenceShared(PatternLists[i], ExpressionLists[j],
                                                        EmptyBindings, orderless, flat, Symbol(h))],
                   n |-> 1]
    /\ UNCHANGED <<rules, stack, ret, input, obs>>

\* The ways to cut s into n consecutive groups, none of them empty.
RECURSIVE Splits(_, _)
Splits(s, n) ==
    IF n = 0 THEN (IF s = <<>> THEN {<<>>} ELSE {})
    ELSE IF n = 1 THEN (IF s = <<>> THEN {} ELSE {<<s>>})
    ELSE UNION { {<<SubSeq(s, 1, k)>> \o r : r \in Splits(SubSeq(s, k + 1, Len(s)), n - 1)} :
                 k \in 1..(Len(s) - 1) }

\* The lists of n expressions that n patterns may be set against in a mode:
\* the expressions reordered if orderless, runs of them grouped under head
\* if flat.
Assignments(expressions, n, orderless, flat, head) ==
    LET orderings == IF orderless THEN Range(permutations(expressions)) ELSE {expressions}
    IN UNION { IF flat THEN {GroupExpressions(g, head) : g \in Splits(o, n)}
               ELSE IF Len(o) = n THEN {o} ELSE {} : o \in orderings }

\* The (name, expression) pairs of the BoundPatterns of p set against e.
RECURSIVE Faces(_, _)
Faces(p, e) ==
    IF IsBoundPattern(p) THEN {<<p[2], e>>} \cup Faces(p[3], e)
    ELSE IF IsFunction(p) /\ IsFunction(e) /\ Attributes(p) = {} /\ Len(p[3]) = Len(e[3])
    THEN UNION {Faces(p[3][i], e[3][i]) : i \in 1..Len(p[3])}
    ELSE {}

\* Some assignment sets every occurrence of a name against the expression
\* that bindings holds for the name.
Consistent(patterns, expressions, orderless, flat, head, bindings) ==
    \E t \in Assignments(expressions, Len(patterns), orderless, flat, head) :
        \A i \in 1..Len(patterns) : \A f \in Faces(patterns[i], t[i]) :
            BoundTo(bindings, f[1], f[2])

\* C15: in every bindings yielded by a match of a sequence of patterns, in
\* each of the four modes, every BoundPattern of a name was set against the
\* one expression bound to the name; so a pattern with a name twice yields
\* no match when no assignment gives both occurrences equal expressions.
C15_NamesConsistent ==
    /\ call.op = "Sequence.match" =>
          \A b \in Yielded(call.result.matches) :
              Consistent(call.x[2], call.y.expression, call.y.orderless, call.y.flat,
                         call.y.head, b)
    /\ (call.op = "match" /\ IsFunction(call.x) /\ IsFunction(call.y.expression)) =>
          \A b \in Yielded(call.result.matches) :
              Consistent(call.x[3], call.y.expression[3], Orderless \in Attributes(call.x),
                         Flat \in Attributes(call.x), call.x[2], b)

\* h[x : f[y_], y_] matched h[f[1], 2] with y bound to 2, although the first
\* y_ stands where 1 is.
C15_NameSetAgainstTwo ==
    /\ call.op = "match"
    /\ call.x = F("h", <<BoundPattern("x", F("f", <<BoundPattern("y", Blank(None))>>)),
                         BoundPattern("y", Blank(None))>>)
    /\ call.y = [expression |-> F("h", <<F("f", <<Integer(1)>>), Integer(2)>>),
                 bindings |-> EmptyBindings]
    /\ call.result.matches =
          << Match(bind(bind(EmptyBindings, "x", F("f", <<Integer(1)>>)), "y", Integer(2))) >>

\* p holds no Blank and no BoundPattern.
RECURSIVE IsLiteral(_)
IsLiteral(p) ==
    CASE IsBlank(p) \/ IsBoundPattern(p) -> FALSE
      [] IsFunction(p) -> IsLiteral(p[2]) /\ \A i \in 1..Len(p[3]) : IsLiteral(p[3][i])
      [] OTHER -> TRUE

\* C16: a pattern without Blank and BoundPattern yields a match, with the
\* bindings it was given, exactly when the expression is structurally equal
\* to it; otherwise it yields nothing, and it never raises.
C16_LiteralIffEqual ==
    (call.op = "match" /\ IsLiteral(call.x)) =>
        IF Eq(call.x, call.y.expression)
        THEN /\ call.result.matches # <<>>
             /\ \A i \in 1..Len(call.result.matches) :
                   call.result.matches[i] = Match(call.y.bindings)
        ELSE call.result.matches = <<>>

\* Complex[1, 2] matched against itself raises AttributeError.
C16_ComplexRaises ==
    /\ call.op = "match"
    /\ call.x = ComplexParts(Integer(1), Integer(2))
    /\ call.y.expression = call.x
    /\ call.result.matches = <<Error("AttributeError")>>

\* Every Blank of p is the base of a BoundPattern.
RECURSIVE AllBlanksNamed(_)
AllBlanksNamed(p) ==
    CASE IsBlank(p) -> FALSE
      [] IsBoundPattern(p) -> TRUE
      [] IsFunction(p) -> AllBlanksNamed(p[2]) /\ \A i \in 1..Len(p[3]) : AllBlanksNamed(p[3][i])
      [] OTHER -> TRUE

\* p with every BoundPattern replaced by the expression bound to its name,
\* rebuilt by the Function constructor (which flattens and sorts).
RECURSIVE Instantiate(_, _)
Instantiate(p, bindings) ==
    CASE IsBoundPattern(p) -> Lookup(bindings, p[2])
      [] IsFunction(p) ->
            Function(Instantiate(p[2], bindings),
                     [i \in 1..Len(p[3]) |-> Instantiate(p[3][i], bindings)])
      [] OTHER -> p

\* C17: if p.match(e, bindings) yields b, then p with its BoundPatterns
\* replaced by what b binds to their names, rebuilt, is structurally equal
\* to e.
C17_Sound ==
    (call.op = "match" /\ AllBlanksNamed(call.x)) =>
        \A b \in Yielded(call.result.matches) :
            Eq(Instantiate(call.x, b), call.y.expression)

\* Plus[f[1], a_] matched Plus[f[2], x] with a bound to x.
C17_ConstantRemovesOther ==
    /\ call.op = "match"
    /\ call.x = F("Plus", <<F("f", <<Integer(1)>>), BoundPattern("a", Blank(None))>>)
    /\ call.y = [expression |-> F("Plus", <<F("f", <<Integer(2)>>), Symbol("x")>>),
                 bindings |-> EmptyBindings]
    /\ Yielded(call.result.matches) = {bind(EmptyBindings, "a", Symbol("x"))}

BindingsInputs == <<
    EmptyBindings,
    bind(EmptyBindings, "a", Symbol("x")),
    bind(EmptyBindings, "a", Symbol("y")),
    bind(EmptyBindings, "b", Symbol("x")),
    bind(bind(EmptyBindings, "a", Symbol("x")), "b", Symbol("y")) >>

\* bindings[key]: __getitem__ returns the first pair with the name met when
\* iterating the set, and the order of a set of tuples follows their hashes,
\* which change from run to run: any value held for the name.
Values(bindings, key) ==
    IF Contains(bindings, key) THEN {q[2] : q \in {p \in bindings : p[1] = key}}
    ELSE {Error("KeyError")}

\* self.union(other)[key]
union_getitem ==
    /\ call.n = 0
    /\ \E i \in 1..Len(BindingsInputs), j \in 1..Len(BindingsInputs), key \in {"a", "b"} :
          \E value \in Values(union(BindingsInputs[i], BindingsInputs[j]), key) :
              call' = [op |-> "union", x |-> <<"Bindings", BindingsInputs[i]>>,
                       y |-> [other |-> BindingsInputs[j], key |-> key],
                       result |-> [bindings |-> union(BindingsInputs[i], BindingsInputs[j]),
                                   value |-> value],
                       n |-> 1]
    /\ UNCHANGED <<rules, stack, ret, input, obs>>

\* C19: self.union(other) holds at most one value for a name, and a name
\* bound in both is looked up to the value self binds it to.
C19_LeftWins ==
    call.op = "union" =>
        /\ \A p \in call.result.bindings : \A q \in call.result.bindings :
              p[1] = q[1] => Eq(p[2], q[2])
        /\ (Contains(call.x[2], call.y.key) /\ Contains(call.y.other, call.y.key)) =>
              Eq(call.result.value, Lookup(call.x[2], call.y.key))

\* {a -> x}.union({a -> y}) holds both pairs, and a is looked up to y.
C19_BothValues ==
    /\ call.op = "union"
    /\ call.x = <<"Bindings", bind(EmptyBindings, "a", Symbol("x"))>>
    /\ call.y = [other |-> bind(EmptyBindings, "a", Symbol("y")), key |-> "a"]
    /\ call.result.bindings = {<<"a", Symbol("x")>>, <<"a", Symbol("y")>>}
    /\ call.result.value = Symbol("y")

\* C20: pattern.match(e, bindings) and the matchers of a sequence leave the
\* object passed as bindings as it was, whether or not a match is yielded.
C20_EnvironmentKept ==
    call.op \in {"match", "Sequence.match"} => call.result.after = call.y.bindings

\* BoundPattern("x", Blank()).match(2, bindings) bound x in the bindings it
\* was given.
C20_BoundInPlace ==
    /\ call.op = "match"
    /\ call.x = BoundPattern("x", Blank(None))
    /\ call.y = [expression |-> Integer(2), bindings |-> EmptyBindings]
    /\ call.result.after = bind(EmptyBindings, "x", Integer(2))

SubstituteTargets == <<
    Integer(5), Real(PyFloat(1, 2)), Symbol("a"),
    F("g", <<Integer(5)>>), F("g", <<Symbol("a"), Real(PyFloat(1, 2))>>),
    F("Plus", <<Symbol("a"), F("g", <<Integer(5)>>)>>) >>

SubstituteBindings == <<
    EmptyBindings,
    bind(EmptyBindings, "a", Symbol("x")),
    bind(EmptyBindings, "Integer", Symbol("x")),
    bind(bind(EmptyBindings, "a", Integer(1)), "Real", Symbol("y")) >>

\* The object e once e.substitute(bindings) has returned.  Symbol.substitute
\* and Function.substitute leave self alone, and Function.substitute calls
\* substitute on its head and on each argument; Expression.substitute, which
\* the numbers inherit, assigns the bound value to self.head.  A number whose
\* head was replaced is written <<"Object", head, number>>.
RECURSIVE AfterSubstitute(_, _)
AfterSubstitute(e, bindings) ==
    CASE IsFunction(e) ->
            <<"Function", AfterSubstitute(e[2], bindings),
              [i \in 1..Len(e[3]) |-> AfterSubstitute(e[3][i], bindings)]>>
      [] IsNumber(e) ->
            \* str(self.head) is the name of the Symbol that heads a number
            IF Contains(bindings, HeadOf(e)[2])
            THEN <<"Object", Lookup(bindings, HeadOf(e)[2]), e>>
            ELSE e
      [] OTHER -> e

\* value = target.substitute(bindings)
substitute_expression ==
    /\ call.n = 0
    /\ \E i \in 1..Len(SubstituteTargets), j \in 1..Len(SubstituteBindings) :
          call' = [op |-> "substitute", x |-> SubstituteTargets[i],
                   y |-> [bindings |-> SubstituteBindings[j]],
                   result |-> [value |-> substitute(SubstituteTargets[i], SubstituteBindings[j]),
                               after |-> AfterSubstitute(SubstituteTargets[i],
                                                         SubstituteBindings[j])],
                   n |-> 1]
    /\ UNCHANGED <<rules, stack, ret, input, obs>>

\* C21: an expression is not changed by substitute (the step of a rule
\* application that touches the rule's stored right-hand side and guards):
\* the object substituted into has the head and the arguments it had before.
C21_ExpressionKept ==
    call.op = "substitute" => call.result.after = call.x

\* g[5].substitute({Integer -> x}) replaced the head of the stored 5 by x.
C21_HeadReplaced ==
    /\ call.op = "substitute"
    /\ call.x = F("g", <<Integer(5)>>)
    /\ call.y.bindings = bind(EmptyBindings, "Integer", Symbol("x"))
    /\ call.result.after = <<"Function", Symbol("g"), << <<"Object", Symbol("x"), Integer(5)>> >> >>

-----------------------------------------------------------------------------
(* Equality against attributes: Symbol.__eq__ compares the names, while    *)
(* Expression.has_attribute reads the attribute list of the instance.      *)

EqualityInputs == <<
    Symbol("c"),
    SymbolA("c", {Constant}),
    SymbolA("f", {Hold}),
    Symbol("f"),
    Integer(1),
    F("g", <<Symbol("c")>>),
    Function(Symbol("g"), <<SymbolA("c", {Constant})>>),
    F("Plus", <<Symbol("c"), Symbol("f")>>),
    Function(SymbolA("f", {Hold}), <<Integer(1)>>) >>

\* self == other, with self.attributes and other.attributes and the answer
\* ConstantQ's code gives on each: b['a'].has_attribute(Attribute.Constant).
equals ==
    /\ call.n = 0
    /\ \E i \in 1..Len(EqualityInputs), j \in 1..Len(EqualityInputs) :
         call' = [op |-> "eq",
                  x |-> EqualityInputs[i],
                  y |-> [other |-> EqualityInputs[j]],
                  result |-> [equal |-> Eq(EqualityInputs[i], EqualityInputs[j]),
                              attributes |-> Attributes(EqualityInputs[i]),
                              other_attributes |-> Attributes(EqualityInputs[j]),
                              constant |-> has_attribute(EqualityInputs[i], Constant),
                              other_constant |-> has_attribute(EqualityInputs[j], Constant)],
                  n |-> 1]
    /\ UNCHANGED <<rules, stack, ret, input, obs>>

\* C24: two structurally equal expressions carry the same attribute set, so
\* a rule or guard reading an attribute answers the same on both.
C24_EqualSameAttributes ==
    (call.op = "eq" /\ call.result.equal)
        => /\ call.result.attributes = call.result.other_attributes
           /\ call.result.constant = call.result.other_constant

\* Symbol('c') equals Symbol('c', [Constant]), and ConstantQ's test is False
\* on the first and True on the second.
C24_EqualOtherAttributes ==
    /\ call.op = "eq"
    /\ call.x = Symbol("c")
    /\ call.y.other = SymbolA("c", {Constant})
    /\ call.result.equal
    /\ call.result.attributes = {}
    /\ call.result.other_attributes = {Constant}
    /\ ~call.result.constant
    /\ call.result.other_constant

-----------------------------------------------------------------------------
(* The constant-pattern pre-filter of the orderless matchers against the   *)
(* enumeration without it.                                                 *)

ConstantPatternLists == <<
    <<F("g", <<Integer(1)>>), BoundPattern("a", Blank(None))>>,
    <<Integer(1), BoundPattern("a", Blank(None))>>,
    <<BoundPattern("a", Blank(None)), Symbol("x")>>,
    <<BoundPattern("a", Blank(None)), BoundPattern("b", Blank(None))>> >>

ConstantExpressionLists == <<
    <<F("g", <<Integer(2)>>), Integer(5)>>,
    <<Symbol("x"), Integer(1)>>,
    <<Symbol("x"), F("g", <<Integer(1)>>)>>,
    <<F("g", <<Integer(2)>>), Symbol("x"), Symbol("y")>>,
    <<Symbol("y"), Symbol("z")>> >>

\* Every ordering of the expressions set against the patterns in order
\* (OrderlessMatchIterator), or cut into groups first when flat
\* (OrderlessFlatIterator), no expression removed beforehand.
PlainEnumeration(patterns, expressions, bindings, flat, head) ==
    IF flat THEN OrderlessFlatIterator(permutations(expressions), patterns, bindings, head)
    ELSE OrderlessMatchIterator(permutations(expressions), patterns, bindings)

\* Sequence(patterns).match(Sequence(expressions), Bindings(), True, flat, head)
prefilter_match ==
    /\ call.n = 0
    /\ \E i \in 1..Len(ConstantPatternLists), j \in 1..Len(ConstantExpressionLists),
          flat \in BOOLEAN :
         call' = [op |-> "orderless",
                  x |-> <<"Sequence", ConstantPatternLists[i]>>,
                  y |-> [expression |-> ConstantExpressionLists[j], flat |-> flat],
                  result |-> [matches |-> SequenceMatch(ConstantPatternLists[i],
                                                        ConstantExpressionLists[j],
                                                        EmptyBindings, TRUE, flat, Symbol("h")),
                              plain |-> PlainEnumeration(ConstantPatternLists[i],
                                                         ConstantExpressionLists[j],
                                                         EmptyBindings, flat, Symbol("h"))],
                  n |-> 1]
    /\ UNCHANGED <<rules, stack, ret, input, obs>>

\* C26: in the Orderless and the Flat+Orderless mode the bindings yielded
\* with the pre-filter are the bindings yielded by the plain enumeration.
C26_SamePlain ==
    call.op = "orderless" =>
        Yielded(call.result.matches) = Yielded(call.result.plain)

\* The constant pattern g[1] takes g[2] away: [g[1], a_] against [g[2], 5]
\* yields a bound to 5 where the plain enumeration yields nothing.
C26_RemovedUnmatched ==
    /\ call.op = "orderless"
    /\ call.x[2] = <<F("g", <<Integer(1)>>), BoundPattern("a", Blank(None))>>
    /\ call.y.expression = <<F("g", <<Integer(2)>>), Integer(5)>>
    /\ Yielded(call.result.matches) = {bind(EmptyBindings, "a", Integer(5))}
    /\ Yielded(call.result.plain) = {}

-----------------------------------------------------------------------------
(* LambdaRule.apply without guards: the value the callback returns is      *)
(* substituted under the bindings of the match.                            *)

\* LambdaRule(g[x_, y_], lambda b: b['x'])
CaptureRule ==
    LambdaRule(F("g", <<BoundPattern("x", Blank(None)), BoundPattern("y", Blank(None))>>),
               "GetX", <<>>)

CaptureInputs == <<
    F("g", <<Symbol("y"), Integer(7)>>),
    F("g", <<Symbol("c"), Integer(7)>>),
    F("g", <<F("h", <<Symbol("y")>>), Integer(7)>>),
    F("g", <<Integer(7), Symbol("y")>>),
    F("g", <<Symbol("x"), Symbol("y")>>),
    F("h", <<Symbol("y")>>) >>

\* The for loop of LambdaRule.apply for a rule without guards: the first
\* match fires the rule.
LambdaApply(rule, expression, ms) ==
    IF ms = <<>> THEN [changed |-> FALSE, expression |-> expression, bindings |-> EmptyBindings]
    ELSE IF IsError(ms[1]) THEN [changed |-> FALSE, expression |-> ms[1], bindings |-> EmptyBindings]
    ELSE [changed |-> TRUE, expression |-> Rewrite(rule, ms[1][2]), bindings |-> ms[1][2]]

\* rule.apply(expression)
lambda_apply ==
    /\ call.n = 0
    /\ \E i \in 1..Len(CaptureInputs) :
         call' = [op |-> "LambdaRule.apply",
                  x |-> CaptureInputs[i],
                  y |-> [rule |-> CaptureRule],
                  result |-> LambdaApply(CaptureRule, CaptureInputs[i],
                                         match(CaptureRule.pattern, CaptureInputs[i], EmptyBindings)),
                  n |-> 1]
    /\ UNCHANGED <<rules, stack, ret, input, obs>>

\* C30: when a LambdaRule fires, the rewrite is the value its callback
\* returned, the Symbols inside the bound values it holds left as they are.
C30_NoCapture ==
    (call.op = "LambdaRule.apply" /\ call.result.changed)
        => call.result.expression = Code(call.y.rule.rhs[2], call.result.bindings)

\* g[y, 7]: x is bound to the Symbol y and y to 7, the callback returns
\* the Symbol y and the rewrite is 7.
C30_Captured ==
    /\ call.op = "LambdaRule.apply"
    /\ call.x = F("g", <<Symbol("y"), Integer(7)>>)
    /\ call.result.changed
    /\ Lookup(call.result.bindings, "x") = Symbol("y")
    /\ Lookup(call.result.bindings, "y") = Integer(7)
    /\ call.result.expression = Integer(7)

ExpressionNext ==
    \/ construct
    \/ match_pattern
    \/ sequence_match
    \/ union_getitem
    \/ substitute_expression
    \/ equals
    \/ prefilter_match
    \/ lambda_apply

ExpressionSpec == Init /\ [][ExpressionNext]_vars

-----------------------------------------------------------------------------
(* Arithmetic is total.                                                    *)

\* The number is zero: a divisor the statement leaves out.
IsZeroPart(e) ==
    CASE IsInteger(e) -> e[2] = 0
      [] IsReal(e) -> e[2][2] = 0
      [] IsRational(e) -> e[2][2] = 0
      [] OTHER -> FALSE

IsZero(e) == IF IsComplex(e) THEN IsZeroPart(e[2]) /\ IsZeroPart(e[3]) ELSE IsZeroPart(e)

\* No Rational in the number has the denominator 0.
HasDenominator(e) ==
    CASE IsRational(e) -> e[3][2] # 0
      [] IsComplex(e) -> /\ IsRational(e[2]) => e[2][3][2] # 0
                         /\ IsRational(e[3]) => e[3][3][2] # 0
      [] OTHER -> TRUE

\* C18: x + y, x - y, x * y and, for y not zero, x / y of two numbers is a
\* Number: not None and not an exception.
C18_Total ==
    (/\ call.op \in {"+", "-", "*", "/"}
     /\ IsNumber(call.x) /\ IsNumber(call.y)
     /\ HasDenominator(call.x) /\ HasDenominator(call.y)
     /\ call.op = "/" => ~IsZero(call.y)) => IsNumber(call.result)

\* Real(0.5) / Rational(1, 2) raises AssertionError.
C18_RealByRational ==
    /\ call.op = "/"
    /\ call.x = Real(PyFloat(1, 2))
    /\ call.y = <<"Rational", Integer(1), Integer(2)>>
    /\ call.result = Error("AssertionError")

-----------------------------------------------------------------------------
(* Properties of the evaluation of the held call (rule pack).              *)

\* C22: evaluate returns a Function whose head Symbol carries Hold with its
\* arguments as they were given, and returns g[4] for g[Plus[2, 2]].
C22_HoldKept ==
    /\ (Done /\ IsFunction(input) /\ IsSymbol(input[2]) /\ Hold \in input[2][3]) =>
          Eq(ret, input)
    /\ (Done /\ Eq(input, F("g", <<F("Plus", <<Integer(2), Integer(2)>>)>>))) =>
          Eq(ret, F("g", <<Integer(4)>>))

\* f[Plus[2, 2]] with Hold on f came back as f[4].
C22_HeldArgumentEvaluated ==
    /\ Done
    /\ input = Function(SymbolA("f", {Hold}), <<F("Plus", <<Integer(2), Integer(2)>>)>>)
    /\ Eq(ret, F("f", <<Integer(4)>>))

\* The printed result the specification gives for main.py.
MainExpected ==
    F("Times", <<F("Cos", <<F("Exp", <<F("Plus", <<Integer(1), Symbol("a")>>)>>)>>),
                 F("Exp", <<F("Plus", <<Integer(1), Symbol("a")>>)>>)>>)

\* The same with Exp[x] written Power[E, x].
MainResult ==
    F("Times", <<F("Cos", <<F("Power", <<Symbol("E"), F("Plus", <<Integer(1), Symbol("a")>>)>>)>>),
                 F("Power", <<Symbol("E"), F("Plus", <<Integer(1), Symbol("a")>>)>>)>>)

\* C23 as stated: evaluate(D[Sin[Exp[Plus[1, a]]], a]) returns
\* Times[Cos[Exp[Plus[1, a]]], Exp[Plus[1, a]]].
C23_MainExpected ==
    (Done /\ input = MainInput) => Eq(ret, MainExpected)

\* C23, amended: evaluate(D[Sin[Exp[Plus[1, a]]], a]) returns
\* Times[Cos[Power[E, Plus[1, a]]], Power[E, Plus[1, a]]], and it never
\* raises on the way.
C23_MainResult ==
    input = MainInput =>
        /\ ~IsError(ret)
        /\ Done => Eq(ret, MainResult)

\* The evaluation of the expression of main.py has returned.
C23_MainReturned ==
    /\ Done
    /\ input = MainInput
    /\ Eq(ret, MainResult)

-----------------------------------------------------------------------------
(* GroupingIterator on its own: the iterator is built over a list and a    *)
(* number of groups, and __next__ is called until it raises StopIteration. *)

MaxElements == 5

\* The lists of at most MaxElements elements.
ElementLists ==
    UNION { {[i \in 1..n |-> Integer(f[i])] : f \in [1..n -> 1..2]} : n \in 1..MaxElements }

\* GroupingIterator(elements, patterns, head), for len(patterns) > 1
grouping_init ==
    /\ call.n = 0
    /\ \E elements \in ElementLists, number_of_groups \in 2..MaxElements :
         call' = [op |-> "GroupingIterator",
                  x |-> <<"list", elements>>,
                  y |-> [number_of_groups |-> number_of_groups,
                         markers |-> InitMarkers(number_of_groups),
                         endpoints |-> Endpoints(Len(elements), number_of_groups),
                         exhausted |-> FALSE],
                  result |-> [yielded |-> <<>>, stopped |-> FALSE],
                  n |-> 1]
    /\ UNCHANGED <<rules, stack, ret, input, obs>>

\* GroupingIterator.__next__: has_next() cuts the slices at the markers and
\* advances them; when exhausted is set, StopIteration is raised.
grouping_next ==
    /\ call.op = "GroupingIterator"
    /\ ~call.result.stopped
    /\ call' =
         IF call.y.exhausted
         THEN [call EXCEPT !.result.stopped = TRUE, !.n = @ + 1]
         ELSE LET advanced == Advance(call.y.markers, call.y.endpoints, Len(call.y.markers))
              IN [call EXCEPT
                    !.result.yielded = Append(@, Slices(call.x[2], call.y.markers, 1, 0)),
                    !.y.markers = IF advanced = <<>> THEN call.y.markers ELSE advanced,
                    !.y.exhausted = (advanced = <<>>),
                    !.n = @ + 1]
    /\ UNCHANGED <<rules, stack, ret, input, obs>>

GroupingNext ==
    \/ grouping_init
    \/ grouping_next

GroupingSpec == Init /\ [][GroupingNext]_vars

\* The binomial coefficient C(n, k).
RECURSIVE Choose(_, _)
Choose(n, k) ==
    IF k = 0 THEN 1
    ELSE IF n = 0 THEN 0
    ELSE Choose(n - 1, k - 1) + Choose(n - 1, k)

RECURSIVE Concatenation(_)
Concatenation(groups) ==
    IF groups = <<>> THEN <<>> ELSE Head(groups) \o Concatenation(Tail(groups))

\* C25: over n > m elements and m >= 2 groups the iterator yields splits
\* into m consecutive non-empty groups that concatenate back to the list,
\* no split twice, it is exhausted exactly when C(n-1, m-1) splits have been
\* yielded, and when it raises StopIteration every such split has been
\* yielded (and the yielded list is the one the matchers iterate over).
C25_AllSplitsOnce ==
    (call.op = "GroupingIterator" /\ Len(call.x[2]) > call.y.number_of_groups)
        => LET elements == call.x[2]
               m == call.y.number_of_groups
               ys == call.result.yielded
               total == Choose(Len(elements) - 1, m - 1)
           IN /\ \A i \in 1..Len(ys) :
                    /\ Len(ys[i]) = m
                    /\ \A g \in 1..m : ys[i][g] # <<>>
                    /\ Concatenation(ys[i]) = elements
              /\ \A i, j \in 1..Len(ys) : i # j => ys[i] # ys[j]
              /\ Len(ys) <= total
              /\ call.y.exhausted <=> (Len(ys) = total)
              /\ call.result.stopped =>
                    /\ call.y.exhausted
                    /\ Range(ys) = Splits(elements, m)
                    /\ Cardinality(Splits(elements, m)) = total
                    /\ ys = GroupingIterator(elements, m)

\* Five elements in three groups: StopIteration after the six splits.
C25_SixSplitsThenStop ==
    /\ call.op = "GroupingIterator"
    /\ Len(call.x[2]) = 5
    /\ call.y.number_of_groups = 3
    /\ Len(call.result.yielded) = 6
    /\ call.result.stopped

-----------------------------------------------------------------------------
(* Rational.gcd on its own, one frame of the recursion at a time.  factor  *)
(* is the product of the factors 2 the frames still open multiply the      *)
(* returned value by.                                                      *)

MaxGcd == 12

\* Rational.gcd(Integer(a), Integer(b))
gcd_call ==
    /\ call.n = 0
    /\ \E a \in -MaxGcd..MaxGcd, b \in -MaxGcd..MaxGcd :
         call' = [op |-> "gcd",
                  x |-> <<"Integers", Integer(a), Integer(b)>>,
                  y |-> [a |-> a, b |-> b, factor |-> 1],
                  result |-> [returned |-> FALSE, value |-> Integer(0)],
                  n |-> 1]
    /\ UNCHANGED <<rules, stack, ret, input, obs>>

\* One frame of Rational.gcd: it returns, or it calls gcd again.
gcd_frame ==
    /\ call.op = "gcd"
    /\ ~call.result.returned
    /\ LET x == Abs(call.y.a)
           y == Abs(call.y.b)
           return(v) == [call EXCEPT !.result = [returned |-> TRUE,
                                                 value |-> Integer(call.y.factor * v)],
                                     !.n = @ + 1]
           recurse(a, b, f) == [call EXCEPT !.y = [a |-> a, b |-> b, factor |-> f],
                                            !.n = @ + 1]
       IN call' =
            IF x = 0 /\ y = 0 THEN return(0)
            ELSE IF x = 0 THEN return(y)
            ELSE IF y = 0 THEN return(x)
            ELSE IF x % 2 = 0 /\ y % 2 = 0 THEN recurse(x \div 2, y \div 2, 2 * call.y.factor)
            ELSE IF x % 2 = 0 THEN recurse(x \div 2, y, call.y.factor)
            ELSE IF y % 2 = 0 THEN recurse(x, y \div 2, call.y.factor)
            ELSE IF x >= y THEN recurse((x - y) \div 2, y, call.y.factor)
            ELSE recurse((y - x) \div 2, x, call.y.factor)
    /\ UNCHANGED <<rules, stack, ret, input, obs>>

GcdNext ==
    \/ gcd_call
    \/ gcd_frame

GcdSpec == Init /\ [][GcdNext]_vars

\* The greatest natural number dividing x and y, 0 for x = y = 0.
GreatestCommonDivisor(x, y) ==
    IF x = 0 /\ y = 0 THEN 0
    ELSE CHOOSE d \in 1..(x + y) :
            /\ x % d = 0 /\ y % d = 0
            /\ \A e \in 1..(x + y) : (x % e = 0 /\ y % e = 0) => e <= d

\* What holds at every frame of gcd(a, b), and once it has returned.
GcdFrames ==
    call.op = "gcd" =>
        LET a == call.x[2][2]
            b == call.x[2 + 1][2]
            expected == GreatestCommonDivisor(Abs(a), Abs(b))
        IN /\ ~call.result.returned =>
                call.y.factor * GreatestCommonDivisor(Abs(call.y.a), Abs(call.y.b)) = expected
           /\ call.result.returned =>
                /\ call.result.value = Integer(expected)
                /\ call.result.value[2] >= 0
                /\ (a = 0 /\ b = 0) => call.result.value = Integer(0)
                /\ b = 0 => call.result.value = Integer(Abs(a))
                /\ call.result.value = gcd(Integer(a), Integer(b))

\* Every frame returns, or calls gcd with a smaller |a| + |b|.
GcdDecreases ==
    (call.op = "gcd" /\ ~call.result.returned)
        => \/ call'.result.returned
           \/ Abs(call'.y.a) + Abs(call'.y.b) < Abs(call.y.a) + Abs(call.y.b)

\* C27: Rational.gcd(a, b) terminates for all Integers a and b, negative
\* and zero included (every frame returns or recurses on a smaller
\* |a| + |b|), and returns the greatest common divisor of |a| and |b|, a
\* non-negative Integer, with gcd(0, 0) = 0 and gcd(a, 0) = |a|.
C27_Gcd == []GcdFrames /\ [][GcdDecreases]_vars

\* gcd(-12, 8) has returned 4.
C27_NegativeReturned ==
    /\ call.op = "gcd"
    /\ call.x = <<"Integers", Integer(-12), Integer(8)>>
    /\ call.result = [returned |-> TRUE, value |-> Integer(4)]

-----------------------------------------------------------------------------
(* The order of the evaluations one evaluate call makes of its subterms.   *)

\* A pass over the rules on expression reports no change.
NoRuleFires(expression) ==
    \A i \in 1..Len(rules) : Apply(rules[i], expression, rules, MaxFuel)[1] = "unchanged"

\* What a step does to the call at position k of the stack when it leaves
\* that call waiting for a subterm.
SubtermStep(k) ==
    LET f == stack[k]
        g == stack'[k]
    IN IF f.pc # "subterms"
       THEN \* the first subterm: the rule loop has ended, the head is next
            /\ k = Len(stack) /\ ret = None
            /\ f.pc = "rules" /\ f.ri > Len(rules)
            /\ NoRuleFires(f.expr)
            /\ IsFunction(f.expr)
            /\ g.expr = f.expr /\ g.acc = <<>>
            /\ Len(stack') = k + 1
            /\ stack'[k + 1] = NewFrame(f.expr[2])
       ELSE \* a later one: the value returned is kept, the next argument
            \* follows
            /\ k = Len(stack) /\ ret # None
            /\ g.expr = f.expr /\ g.acc = Append(f.acc, ret)
            /\ Len(g.acc) <= Len(f.expr[3])
            /\ Len(stack') = k + 1
            /\ stack'[k + 1] = NewFrame(f.expr[3][Len(g.acc)])

\* Each step of the program, on every call in progress.
SubtermOrder ==
    /\ \A k \in 1..Len(stack') :
          (stack'[k].pc = "subterms" /\ (k > Len(stack) \/ stack'[k] # stack[k]))
              => (k <= Len(stack) /\ SubtermStep(k))
    /\ \A k \in 1..Len(stack) :
          (stack[k].pc = "subterms" /\ (k > Len(stack') \/ stack'[k].pc # "subterms"))
              => \/ stack' = <<>> /\ IsError(ret')
                 \/ /\ k = Len(stack) /\ ret # None
                    /\ Len(stack[k].acc) = Len(stack[k].expr[3])

\* C28: an evaluate call on a Function evaluates none of its subterms
\* before a pass of its rule loop has ended with no rule firing, and then
\* evaluates the head first and each argument from left to right, every
\* one of them before it builds the Function again.  (The evaluation of a
\* guard is a call the rule makes, on the guard.)
C28_SubtermsAfterLoop == [][SubtermOrder]_vars

\* With a rule registered, the outermost call has evaluated the head and
\* the first argument and waits for the second one.
C28_SecondArgument ==
    /\ Len(rules) > 0
    /\ Len(stack) = 2
    /\ stack[1].pc = "subterms"
    /\ Len(stack[1].acc) = 2
    /\ stack[2] = NewFrame(stack[1].expr[3][2])
    /\ stack[1].expr[3][1] # stack[1].expr[3][2]

-----------------------------------------------------------------------------
(* A second Kernel instance next to the module's kernel: rules is the rule *)
(* list of evaluation.kernel, the instance has a list of its own.          *)

\* Rule lists of the second instance, by the positions of the rules in
\* UserRules.
InstanceRules == << <<6>>, <<7, 8>>, <<5, 6>> >>

\* Expressions evaluated on the second instance.
InstanceInputs == {
    F("Plus", <<Symbol("b"), Symbol("a")>>),
    F("f", <<F("Plus", <<Symbol("a"), Symbol("b")>>)>>) }

\* The rules of UserRules at the positions listed.
RulesAt(positions, user_rules) == [k \in 1..Len(positions) |-> user_rules[positions[k]]]

\* k = Kernel(); k.add_rule(rule) for each rule of a list; k.evaluate(e)
instance_evaluate ==
    /\ Idle /\ input = None
    /\ call.n = 0
    /\ \E i \in 1..Len(InstanceRules), e \in InstanceInputs :
         /\ call' = [op |-> "Kernel.evaluate",
                     x |-> <<"Kernel", RulesAt(InstanceRules[i], UserRules)>>,
                     y |-> [expression |-> e],
                     result |-> None,
                     n |-> 1]
         /\ input' = e
         /\ stack' = <<NewFrame(e)>>
    /\ UNCHANGED <<rules, ret, obs>>

KernelsNext ==
    \/ add_rule
    \/ instance_evaluate
    \/ apply
    \/ guard_return
    \/ loop_exit
    \/ subterm_return
    \/ tail_return

KernelsSpec == Init /\ [][KernelsNext]_vars

\* C29: what evaluate returns on a Kernel instance is what the instance's
\* own rule list gives, guards included, whatever rules the other Kernel
\* holds.
C29_OwnRules ==
    (Done /\ call.op = "Kernel.evaluate" /\ ~IsError(ret))
        => Eq(ret, Evaluate(input, call.x[2], MaxFuel))

\* The instance holds Plus[x_, y_] :> b['x'] /; Q[x], True and Q[b] -> True,
\* the module's kernel holds no rule: the guard Q[b] is not True there and
\* Plus[b, a] is returned as it is, where the instance's own rules rewrite
\* it to b.
C29_GuardOfOtherKernel ==
    /\ Done
    /\ call.op = "Kernel.evaluate"
    /\ call.x[2] = <<UserRules[7], UserRules[8]>>
    /\ rules = <<>>
    /\ input = F("Plus", <<Symbol("b"), Symbol("a")>>)
    /\ Eq(ret, input)
    /\ Eq(Evaluate(input, call.x[2], MaxFuel), Symbol("b"))

=============================================================================
